---------------------------- MODULE Spec2Model ----------------------------
(***************************************************************************)
(* A model of the gait_rag repository: the web backend (auth, admin,       *)
(* chat, RAG management) and the retrieval engine's document store.        *)
(*                                                                         *)
(* Text is modelled as a sequence of one-character strings, so that        *)
(* startswith, slicing, strip, lower and isalnum are computed, not         *)
(* assumed.  The Korean literals of the source are written in ASCII,       *)
(* because the parser accepts ASCII only; each place names the original.   *)
(***************************************************************************)
EXTENDS Integers, Sequences, FiniteSets, TLC

VARIABLES
    users,        \* the users table: a set of User rows
    resp,         \* the response of the last request (with what the handler saw)
    convs,        \* the conversations table: a set of Conversation rows
    msgs,         \* the messages table, in insertion order
    inflight,     \* requests suspended at an await, with their session's pending work
    nextConvId,   \* the id the database gives the next Conversation row
    now,          \* the logical clock behind datetime.utcnow(); it also numbers the turns
    connections,  \* IndexingProgressManager.active_connections
    chunks,       \* the vector store's collection: a set of stored chunks
    dir,          \* the directory-indexing run of IndexDirectoryUseCase.execute
    progress,     \* IndexingProgressManager.progress_data
    jobs,         \* the background reindex jobs, each at its position
    channel,      \* the progress channel: sends in flight and what each observer received
    container     \* the engine's Container: its cached adapters and use cases

indexingVars == <<dir, progress, jobs, channel, container>>

vars == <<users, resp, convs, msgs, inflight, nextConvId, now, connections, chunks,
          indexingVars>>

(***************************************************************************)
(* Bounds of the model.                                                    *)
(***************************************************************************)
MaxUsers == 2
MaxRegistered == 2
MaxClients == 2
MaxClock == 2
MaxChunks == 2
MaxEntries == 6
MaxRows == 2
MaxLimit == 2
MaxJobs == 2
MaxDataFiles == 2
MaxLogUpdates == 102
MaxWords == 6
MaxChunkSize == 4

(***************************************************************************)
(* Program constants.                                                      *)
(***************************************************************************)
MinUsernameLen == 3
MaxUsernameLen == 100
MinPasswordLen == 8
TitleLen == 50
SnippetLen == 200
ContextSnippetLen == 300
ShownResults == 3
SemaphoreLimit == 3
LogLimit == 100

None == "None"

\* No directory run, the progress record of IndexingProgressManager.__init__,
\* no reindex job, and a quiet progress channel.
NoDirRun == [phase |-> "none"]
\* None as current_file and as start_time of the progress record
NoFile == <<>>
NoTime == -1
InitialProgress ==
    [status |-> "idle", current_file |-> NoFile, processed_files |-> <<>>,
     failed_files |-> <<>>, total_files |-> 0, completed_files |-> 0,
     chunks_created |-> 0, start_time |-> NoTime, messages |-> <<>>]
NoJobs == <<>>
NoBroadcast ==
    [active |-> FALSE, by |-> 0, idx |-> 0, target |-> 0, failed |-> <<>>,
     present |-> {}, left |-> {}, sent |-> <<>>]
NoWire == [to |-> 0, kind |-> "none"]
QuietChannel ==
    [lock |-> 0, bcast |-> NoBroadcast, accepting |-> {}, greeted |-> {},
     early |-> {}, wire |-> NoWire]
NoContainer == [made |-> FALSE]
IndexingIdle ==
    /\ dir = NoDirRun
    /\ progress = InitialProgress
    /\ jobs = NoJobs
    /\ channel = QuietChannel
    /\ container = NoContainer

(***************************************************************************)
(* Text helpers.                                                           *)
(***************************************************************************)
LowerLetters ==
    {"a", "b", "d", "e", "f", "h", "i", "j", "m", "n", "o", "p", "r", "s", "t", "u", "w", "x"}
UpperLetters == {"A", "B", "J", "N", "C", "X", "P", "D", "F"}
Digits == {"0", "1", "2", "3"}

\* str.isalnum of one character
IsAlnumChar(c) == c \in LowerLetters \cup UpperLetters \cup Digits

\* str.lower of one character
LowerChar(c) ==
    CASE c = "A" -> "a"
      [] c = "B" -> "b"
      [] c = "J" -> "j"
      [] c = "N" -> "n"
      [] c = "C" -> "c"
      [] c = "X" -> "x"
      [] c = "P" -> "p"
      [] c = "D" -> "d"
      [] c = "F" -> "f"
      [] OTHER -> c

\* str.lower()
Lower(s) == [i \in 1..Len(s) |-> LowerChar(s[i])]

\* str.replace(c, "")
RECURSIVE Remove(_, _)
Remove(s, c) ==
    IF s = <<>> THEN <<>>
    ELSE IF Head(s) = c THEN Remove(Tail(s), c)
    ELSE <<Head(s)>> \o Remove(Tail(s), c)

\* str.isalnum(): false for the empty string
IsAlnum(s) == Len(s) > 0 /\ \A i \in 1..Len(s) : IsAlnumChar(s[i])

\* all sequences over S of length lo..hi
SeqsOf(S, lo, hi) == UNION {[1..n -> S] : n \in lo..hi}

SetMax(S) == CHOOSE x \in S : \A y \in S : y <= x

(***************************************************************************)
(* Users.                                                                  *)
(***************************************************************************)
UserIds == 1..MaxUsers

\* pwd_context.hash / pwd_context.verify
get_password_hash(password) == <<"bcrypt", password>>
verify_password(plain, hashed) == hashed = <<"bcrypt", plain>>

Passwords == {"password-1", "password-2", "short"}
PasswordLen(p) == IF p = "short" THEN 5 ELSE 10

\* Column defaults of the User table (database/models.py).
UserDefaults == [is_active |-> TRUE, is_admin |-> FALSE]

NewUser(id, username, password, full_name, department) ==
    [id |-> id, username |-> username,
     password_hash |-> get_password_hash(password),
     full_name |-> full_name, department |-> department,
     is_active |-> UserDefaults.is_active, is_admin |-> UserDefaults.is_admin]

\* The primary key the database gives a new row: one past the largest.
NewId(table) == IF table = {} THEN 1 ELSE SetMax({u.id : u \in table}) + 1

HasUser(id) == \E u \in users : u.id = id
UserById(id) == CHOOSE u \in users : u.id = id
HasUsername(name) == \E u \in users : u.username = name
UserByName(name) == CHOOSE u \in users : u.username = name
AdminCount == Cardinality({u \in users : u.is_admin})

\* str(e) of an HTTPException: "<status_code>: <detail>"
StrOfHTTPException(status, detail) == ToString(status) \o ": " \o detail

(***************************************************************************)
(* Bearer tokens.  A token is either validly signed and unexpired, with    *)
(* the user id it was issued for as its "sub", or it does not decode.      *)
(***************************************************************************)
Tokens ==
    {[valid |-> TRUE, sub |-> i] : i \in UserIds} \cup {[valid |-> FALSE, sub |-> 1]}

\* SecurityService.decode_token: the payload, or no payload
decode_token(tok) == IF tok.valid THEN [ok |-> TRUE, sub |-> tok.sub] ELSE [ok |-> FALSE]

\* auth.dependencies.get_current_user: the user, or the HTTP error raised
get_current_user(tok) ==
    IF ~decode_token(tok).ok
    THEN [ok |-> FALSE, status |-> 401, detail |-> "Invalid authentication token"]
    ELSE IF ~HasUser(decode_token(tok).sub)
    THEN [ok |-> FALSE, status |-> 401, detail |-> "User not found"]
    ELSE IF ~UserById(decode_token(tok).sub).is_active
    THEN [ok |-> FALSE, status |-> 403, detail |-> "Inactive user account"]
    ELSE [ok |-> TRUE, user |-> UserById(decode_token(tok).sub)]

\* auth.admin_router.get_admin_user
get_admin_user(tok) ==
    LET cur == get_current_user(tok)
    IN  IF ~cur.ok THEN cur
        ELSE IF ~cur.user.is_admin
        THEN [ok |-> FALSE, status |-> 403, detail |-> "Admin access required"]
        ELSE cur

\* auth.dependencies.require_admin
require_admin(tok) ==
    LET cur == get_current_user(tok)
    IN  IF ~cur.ok THEN cur
        ELSE IF ~cur.user.is_admin
        THEN [ok |-> FALSE, status |-> 403, detail |-> "Admin privileges required"]
        ELSE cur


(***************************************************************************)
(* Responses.  resp keeps the last response and, for the properties, what  *)
(* the request asked for.                                                  *)
(***************************************************************************)
NoRequest == [none |-> TRUE]
NoResp == [op |-> "none", status |-> 0, detail |-> "", error |-> "", request |-> NoRequest]
Response(op, status, detail, error, request) ==
    [op |-> op, status |-> status, detail |-> detail, error |-> error, request |-> request]

(***************************************************************************)
(* Registration: POST /api/v1/auth/register.                               *)
(***************************************************************************)
Chars == {"a", "A", "_", "!"}

\* The usernames tried: every text over Chars of the shortest accepted
\* length, and of one character less.
RawUsernames == SeqsOf(Chars, MinUsernameLen - 1, MinUsernameLen)

\* UserCreate.validate_username: the ValueError, or the value returned
validate_username_NoLower(v) ==
    IF ~IsAlnum(Remove(Remove(v, "_"), "-"))
    THEN [ok |-> FALSE]
    ELSE [ok |-> TRUE, value |-> v]

validate_username(v) ==
    IF ~IsAlnum(Remove(Remove(v, "_"), "-"))
    THEN [ok |-> FALSE]
    ELSE [ok |-> TRUE, value |-> Lower(v)]

\* UserCreate(...): the field constraints, then the validator
UserCreate(username, password) ==
    IF Len(username) < MinUsernameLen \/ Len(username) > MaxUsernameLen
    THEN [ok |-> FALSE]
    ELSE IF PasswordLen(password) < MinPasswordLen
    THEN [ok |-> FALSE]
    ELSE IF ~validate_username(username).ok
    THEN [ok |-> FALSE]
    ELSE [ok |-> TRUE, username |-> validate_username(username).value,
          password |-> password]

\* The request bodies tried: every raw username with a valid password, and
\* one body whose password is too short.
RegisterBodies ==
    {[username |-> r, password |-> "password-1"] : r \in RawUsernames}
    \cup {[username |-> <<"a", "a", "a">>, password |-> "short"]}

\* AuthService.create_user
create_user(user_data) ==
    IF \E u \in users : u.username = user_data.username
    THEN [ok |-> FALSE, error |-> "ConflictError", status |-> 409,
          detail |-> "Username already exists"]
    ELSE [ok |-> TRUE,
          user |-> NewUser(NewId(users), user_data.username, user_data.password,
                           None, None)]

\* auth.router.register
Register(body) ==
    LET data == UserCreate(body.username, body.password)
        req == [username |-> body.username, password |-> body.password]
    IN  /\ IF ~data.ok
           THEN /\ resp' = Response("register", 422, "validation error",
                                    "RequestValidationError", req)
                /\ UNCHANGED users
           ELSE IF ~create_user(data).ok
           THEN /\ resp' = Response("register", 400,
                                    StrOfHTTPException(create_user(data).status,
                                                       create_user(data).detail),
                                    create_user(data).error, req)
                /\ UNCHANGED users
           ELSE /\ Cardinality(users) < MaxRegistered
                /\ users' = users \cup {create_user(data).user}
                /\ resp' = Response("register", 200, "", "", req)
        /\ UNCHANGED <<convs, msgs, inflight, nextConvId, now, connections, chunks,
                       indexingVars>>

InitRegister ==
    /\ users = {}
    /\ resp = NoResp
    /\ convs = {}
    /\ msgs = <<>>
    /\ inflight = {}
    /\ nextConvId = 1
    /\ now = 0
    /\ connections = <<>>
    /\ chunks = {}
    /\ IndexingIdle

NextRegister == \E body \in RegisterBodies : Register(body)

SpecRegister == InitRegister /\ [][NextRegister]_vars


(***************************************************************************)
(* C8: after any sequence of registration attempts every stored username   *)
(* is lowercase, made only of letters, digits, hyphen and underscore, and  *)
(* unique; and a registration (with an acceptable password) of a name that *)
(* equals an existing username up to letter case fails with the service's  *)
(* ConflictError and leaves the users table unchanged.                     *)
(***************************************************************************)
SameIgnoringCase(a, b) ==
    Len(a) = Len(b) /\ \A i \in 1..Len(a) : LowerChar(a[i]) = LowerChar(b[i])

C8_StoredUsernames ==
    /\ \A u \in users : \A i \in 1..Len(u.username) :
          /\ u.username[i] \notin UpperLetters
          /\ u.username[i] \in LowerLetters \cup Digits \cup {"-", "_"}
    /\ \A u, v \in users : u.username = v.username => u = v

C8_ConflictStep ==
    (/\ resp'.op = "register"
     /\ PasswordLen(resp'.request.password) >= MinPasswordLen
     /\ \E u \in users : SameIgnoringCase(u.username, resp'.request.username))
    => (/\ users' = users
        /\ resp'.error = "ConflictError"
        /\ resp'.status = 400)

C8_UsernamesNormalizedUnique == []C8_StoredUsernames /\ [][C8_ConflictStep]_vars

\* A registration of a name differing only in case from a stored one was refused.
C8_Witness ==
    /\ resp.op = "register"
    /\ resp.error = "ConflictError"
    /\ \E u \in users :
          /\ u.username # resp.request.username
          /\ SameIgnoringCase(u.username, resp.request.username)
    /\ Cardinality(users) = 2


(***************************************************************************)
(* The admin sub-router (/api/v1/admin/users) and login.                   *)
(***************************************************************************)
\* The username of the row with id i in the initial tables.
NameOf(i) == <<"u", ToString(i)>>

\* The row with id i of an initial table.
InitialUser(i, active, admin) ==
    [id |-> i, username |-> NameOf(i),
     password_hash |-> get_password_hash("password-1"),
     full_name |-> None, department |-> None,
     is_active |-> active, is_admin |-> admin]

RowsFor(i) == {InitialUser(i, TRUE, d) : d \in BOOLEAN}
UniqueIds(table) == \A u, v \in table : u.id = v.id => u = v

\* Every users table over the ids 1..MaxUsers that holds at least one admin
\* (accounts start active; the toggle deactivates them).
InitialTables ==
    {t \in SUBSET (UNION {RowsFor(i) : i \in UserIds}) :
        UniqueIds(t) /\ \E u \in t : u.is_admin}

\* The fields the UserUpdate schema declares.
UserUpdateFields == {"full_name", "department", "password"}

\* The JSON bodies sent to PUT /users/{id}.
UpdateBodies ==
    {[full_name |-> f, department |-> None, password |-> None,
      is_active |-> a, is_admin |-> d] :
        f \in {None, "Full Name"}, a \in {None, "false"}, d \in {None, "false", "true"}}

\* UserUpdate(**body): keys that are not fields of the schema are dropped.
UserUpdate(body) == [f \in UserUpdateFields |-> body[f]]

\* Reading attribute f of a schema object raises AttributeError unless f is a field.
HasAttr(obj, f) == f \in DOMAIN obj

\* The parameters AuthService.create_user accepts, besides self.
CreateUserParams == {"user_data"}
\* The keywords admin_router.create_user calls it with.
CreateUserKeywords == {"username", "password", "full_name", "department"}

AsBool(v) == v = "true"

\* admin_router.create_user
AdminCreateUser(tok, body) ==
    LET admin == get_admin_user(tok)
        data == UserCreate(body.username, body.password)
        req == [user_id |-> 0, tok |-> tok]
    IN  /\ resp' =
             IF ~admin.ok
             THEN Response("admin_create", admin.status, admin.detail, "HTTPException", req)
             ELSE IF ~data.ok
             THEN Response("admin_create", 422, "validation error",
                           "RequestValidationError", req)
             ELSE IF \E u \in users : u.username = data.username
             THEN Response("admin_create", 400, "Username already exists",
                           "HTTPException", req)
             ELSE IF ~(CreateUserKeywords \subseteq CreateUserParams)
             THEN Response("admin_create", 500, "Internal Server Error", "TypeError", req)
             ELSE Response("admin_create", 200, "", "", req)
        /\ users' =
             IF /\ admin.ok /\ data.ok
                /\ ~\E u \in users : u.username = data.username
                /\ CreateUserKeywords \subseteq CreateUserParams
                /\ Cardinality(users) < MaxUsers
             THEN users \cup {NewUser(NewId(users), data.username, data.password, None, None)}
             ELSE users
        /\ UNCHANGED <<convs, msgs, inflight, nextConvId, now, connections, chunks,
                       indexingVars>>

\* The row after the assignments of admin_router.update_user, lines 87-99.
UpdatedRow(user, data) ==
    [user EXCEPT
        !.full_name = IF data.full_name # None THEN data.full_name ELSE @,
        !.department = IF data.department # None THEN data.department ELSE @,
        !.is_active = IF data.is_active # None THEN AsBool(data.is_active) ELSE @,
        !.is_admin = IF data.is_admin # None THEN AsBool(data.is_admin) ELSE @,
        !.password_hash = IF data.password # None
                          THEN get_password_hash(data.password) ELSE @]

\* admin_router.update_user
AdminUpdateUser(tok, user_id, body) ==
    LET admin == get_admin_user(tok)
        data == UserUpdate(body)
        req == [user_id |-> user_id, tok |-> tok]
    IN  /\ resp' =
             IF ~admin.ok
             THEN Response("admin_update", admin.status, admin.detail, "HTTPException", req)
             ELSE IF ~HasUser(user_id)
             THEN Response("admin_update", 404, "User not found", "HTTPException", req)
             ELSE IF ~HasAttr(data, "is_active") \/ ~HasAttr(data, "is_admin")
             THEN Response("admin_update", 500, "Internal Server Error",
                           "AttributeError", req)
             ELSE Response("admin_update", 200, "", "", req)
        /\ users' =
             IF /\ admin.ok /\ HasUser(user_id)
                /\ HasAttr(data, "is_active") /\ HasAttr(data, "is_admin")
             THEN (users \ {UserById(user_id)}) \cup {UpdatedRow(UserById(user_id), data)}
             ELSE users
        /\ UNCHANGED <<convs, msgs, inflight, nextConvId, now, connections, chunks,
                       indexingVars>>

\* The guard with "<" written for "<=".
IsLastAdmin_OffByOne(user) == user.is_admin /\ AdminCount < 1

\* The guard of admin_router.delete_user: the target is the last admin.
IsLastAdmin(user) == user.is_admin /\ AdminCount <= 1

\* admin_router.delete_user
AdminDeleteUser(tok, user_id) ==
    LET admin == get_admin_user(tok)
        req == [user_id |-> user_id, tok |-> tok]
    IN  /\ resp' =
             IF ~admin.ok
             THEN Response("admin_delete", admin.status, admin.detail, "HTTPException", req)
             ELSE IF ~HasUser(user_id)
             THEN Response("admin_delete", 404, "User not found", "HTTPException", req)
             ELSE IF IsLastAdmin(UserById(user_id))
             THEN Response("admin_delete", 400, "Cannot delete the last admin user",
                           "HTTPException", req)
             ELSE Response("admin_delete", 200, "", "", req)
        /\ users' =
             IF admin.ok /\ HasUser(user_id) /\ ~IsLastAdmin(UserById(user_id))
             THEN users \ {UserById(user_id)}
             ELSE users
        /\ UNCHANGED <<convs, msgs, inflight, nextConvId, now, connections, chunks,
                       indexingVars>>

\* admin_router.toggle_user_active
\* user.id == admin.id (admin_router.py:152)
IsSelf_Never(user, admin) == FALSE

IsSelf(user, admin) == user.id = admin.id

AdminToggleActive(tok, user_id) ==
    LET admin == get_admin_user(tok)
        req == [user_id |-> user_id, tok |-> tok]
    IN  /\ resp' =
             IF ~admin.ok
             THEN Response("admin_toggle", admin.status, admin.detail, "HTTPException", req)
             ELSE IF ~HasUser(user_id)
             THEN Response("admin_toggle", 404, "User not found", "HTTPException", req)
             ELSE IF IsSelf(UserById(user_id), admin.user)
             THEN Response("admin_toggle", 400, "Cannot deactivate your own account",
                           "HTTPException", req)
             ELSE Response("admin_toggle", 200, "", "", req)
        /\ users' =
             IF admin.ok /\ HasUser(user_id) /\ ~IsSelf(UserById(user_id), admin.user)
             THEN (users \ {UserById(user_id)})
                  \cup {[UserById(user_id) EXCEPT !.is_active = ~@]}
             ELSE users
        /\ UNCHANGED <<convs, msgs, inflight, nextConvId, now, connections, chunks,
                       indexingVars>>

\* authenticate_user with the active check moved before the password check
authenticate_user_ActiveFirst(username, password) ==
    IF ~HasUsername(username)
    THEN [ok |-> FALSE, cause |-> "no_user", status |-> 401,
          detail |-> "Invalid username or password"]
    ELSE IF ~UserByName(username).is_active
    THEN [ok |-> FALSE, cause |-> "inactive", status |-> 401,
          detail |-> "User account is inactive"]
    ELSE IF ~verify_password(password, UserByName(username).password_hash)
    THEN [ok |-> FALSE, cause |-> "bad_password", status |-> 401,
          detail |-> "Invalid username or password"]
    ELSE [ok |-> TRUE, user |-> UserByName(username)]

\* AuthService.authenticate_user: the user, or the AuthenticationError raised
authenticate_user(username, password) ==
    IF ~HasUsername(username)
    THEN [ok |-> FALSE, cause |-> "no_user", status |-> 401,
          detail |-> "Invalid username or password"]
    ELSE IF ~verify_password(password, UserByName(username).password_hash)
    THEN [ok |-> FALSE, cause |-> "bad_password", status |-> 401,
          detail |-> "Invalid username or password"]
    ELSE IF ~UserByName(username).is_active
    THEN [ok |-> FALSE, cause |-> "inactive", status |-> 401,
          detail |-> "User account is inactive"]
    ELSE [ok |-> TRUE, user |-> UserByName(username)]

\* auth.router.login
Login(username, password) ==
    LET auth == authenticate_user(username, password)
        req == [username |-> username, password |-> password]
    IN  /\ resp' =
             IF ~auth.ok
             THEN Response("login", 401, StrOfHTTPException(auth.status, auth.detail),
                           auth.cause, req)
             ELSE Response("login", 200, "", "", req)
        /\ UNCHANGED <<users, convs, msgs, inflight, nextConvId, now, connections, chunks,
                       indexingVars>>

InitUsers ==
    /\ users \in InitialTables
    /\ resp = NoResp
    /\ convs = {}
    /\ msgs = <<>>
    /\ inflight = {}
    /\ nextConvId = 1
    /\ now = 0
    /\ connections = <<>>
    /\ chunks = {}
    /\ IndexingIdle

AdminCreateBodies ==
    {[username |-> <<"u", "1">>, password |-> "password-1"],
     [username |-> <<"N", "e", "w">>, password |-> "password-1"],
     [username |-> <<"n", "e", "w">>, password |-> "short"]}

NextUsers ==
    \/ \E tok \in Tokens, body \in AdminCreateBodies : AdminCreateUser(tok, body)
    \/ \E tok \in Tokens, id \in UserIds, body \in UpdateBodies :
          AdminUpdateUser(tok, id, body)
    \/ \E tok \in Tokens, id \in UserIds : AdminDeleteUser(tok, id)
    \/ \E tok \in Tokens, id \in UserIds : AdminToggleActive(tok, id)
    \/ \E id \in UserIds, p \in {"password-1", "password-2"} : Login(NameOf(id), p)

SpecUsers == InitUsers /\ [][NextUsers]_vars


(***************************************************************************)
(* C1: from any users table with at least one admin, after any sequence of *)
(* admin operations at least one user with the admin flag remains; the     *)
(* deletion of the sole remaining admin is refused with "Cannot delete the *)
(* last admin user" and leaves the table unchanged; and no admin update    *)
(* takes the admin flag from the sole remaining admin.                     *)
(***************************************************************************)
SoleAdmin(id) ==
    /\ \E u \in users : u.id = id /\ u.is_admin
    /\ \A u \in users : u.is_admin => u.id = id

C1_AdminRemains == \E u \in users : u.is_admin

C1_DeleteStep ==
    (/\ resp'.op = "admin_delete"
     /\ resp'.status \notin {401, 403}
     /\ SoleAdmin(resp'.request.user_id))
    => (/\ users' = users
        /\ resp'.status = 400
        /\ resp'.detail = "Cannot delete the last admin user")

C1_UpdateStep ==
    (resp'.op = "admin_update" /\ SoleAdmin(resp'.request.user_id))
    => \E u \in users' : u.id = resp'.request.user_id /\ u.is_admin

C1_LastAdminKept == []C1_AdminRemains /\ [][C1_DeleteStep /\ C1_UpdateStep]_vars

\* An admin asked to delete the only admin of a two-user table and was refused.
C1_Witness ==
    /\ resp.op = "admin_delete"
    /\ resp.detail = "Cannot delete the last admin user"
    /\ SoleAdmin(resp.request.user_id)
    /\ Cardinality(users) = 2

C9_KnownUser == \E u \in users : u.username = resp.request.username
C9_PasswordRight ==
    \E u \in users : /\ u.username = resp.request.username
                     /\ u.password_hash = <<"bcrypt", resp.request.password>>
C9_Active == \E u \in users : u.username = resp.request.username /\ u.is_active

RagHttpEndpoints ==
    {"stats", "documents", "upload", "delete", "reindex",
     "embedding_status", "vllm_status", "clear"}

WsClients == 1..MaxClients

RECURSIVE Without(_, _)
\* list.remove(x) for a list that holds x at most once; the list itself otherwise
Without(list, x) ==
    IF list = <<>> THEN <<>>
    ELSE IF Head(list) = x THEN Tail(list)
    ELSE <<Head(list)>> \o Without(Tail(list), x)

InList(list, x) == \E i \in 1..Len(list) : list[i] = x

\* An HTTP endpoint of the router: the dependency runs first, the handler
\* body (a call to the engine, a subprocess, a background task) only after it.
RagEndpoint(endpoint, tok) ==
    LET admin == require_admin(tok)
        req == [endpoint |-> endpoint, tok |-> tok]
    IN  /\ resp' =
             IF ~admin.ok
             THEN Response("rag", admin.status, admin.detail, "HTTPException", req)
             ELSE Response("rag", 200, "served", "", req)
        /\ UNCHANGED <<users, convs, msgs, inflight, nextConvId, now, connections, chunks,
                       indexingVars>>

\* rag.routes.websocket_progress up to its first receive, with
\* IndexingProgressManager.connect: accept, append, send the snapshot.
WebSocketProgress(ws, tok) ==
    /\ ~InList(connections, ws)
    /\ connections' = Append(connections, ws)
    /\ resp' = Response("rag", 101, "served", "",
                        [endpoint |-> "ws_progress", tok |-> tok])
    /\ UNCHANGED <<users, convs, msgs, inflight, nextConvId, now, chunks,
                   indexingVars>>

\* rag.routes.websocket_progress on WebSocketDisconnect, with
\* IndexingProgressManager.disconnect
WebSocketDisconnect(ws) ==
    /\ InList(connections, ws)
    /\ connections' = Without(connections, ws)
    /\ resp' = Response("ws_closed", 0, "", "", [endpoint |-> "ws_progress"])
    /\ UNCHANGED <<users, convs, msgs, inflight, nextConvId, now, chunks,
                   indexingVars>>

NextRag ==
    \/ \E e \in RagHttpEndpoints, tok \in Tokens : RagEndpoint(e, tok)
    \/ \E ws \in WsClients, tok \in Tokens : WebSocketProgress(ws, tok)
    \/ \E ws \in WsClients : WebSocketDisconnect(ws)
    \/ \E tok \in Tokens, id \in UserIds : AdminToggleActive(tok, id)

SpecRag == InitUsers /\ [][NextRag]_vars

(***************************************************************************)
(* C10 as claimed: every RAG-management endpoint, the WebSocket progress   *)
(* channel included, serves only a caller resolved as an authenticated,    *)
(* active user with the admin flag.                                        *)
(***************************************************************************)
ResolvesToActiveAdmin(tok) ==
    /\ tok.valid
    /\ \E u \in users : u.id = tok.sub /\ u.is_active /\ u.is_admin

C10_AllRagEndpointsRequireAdmin ==
    (resp.op = "rag" /\ resp.detail = "served")
    => ResolvesToActiveAdmin(resp.request.tok)


(***************************************************************************)
(* Chat: conversations and messages (chat/service.py, chat/router.py).     *)
(***************************************************************************)
Min(a, b) == IF a <= b THEN a ELSE b

\* s[:n]
Take(s, n) == SubSeq(s, 1, Min(n, Len(s)))
\* s[1:]
Rest(s) == SubSeq(s, 2, Len(s))
\* c * n
Rep(c, n) == [i \in 1..n |-> c]

Whitespace == {" ", "\n", "\t"}

RECURSIVE LStrip(_)
LStrip(s) == IF s # <<>> /\ Head(s) \in Whitespace THEN LStrip(Tail(s)) ELSE s

RECURSIVE RStrip(_)
RStrip(s) ==
    IF s # <<>> /\ s[Len(s)] \in Whitespace THEN RStrip(SubSeq(s, 1, Len(s) - 1)) ELSE s

\* str.strip()
Strip(s) == RStrip(LStrip(s))

\* str.startswith(c)
StartsWith(s, c) == Len(s) > 0 /\ s[1] = c

\* "New Conversation"
DefaultTitle ==
    <<"N", "e", "w", " ", "C", "o", "n", "v", "e", "r", "s", "a", "t", "i", "o", "n">>
CustomTitle == <<"M", "y", " ", "c", "h", "a", "t">>

\* The users of the chat: two active accounts.
ChatUserIds == {1, 2}
ChatUsers == {InitialUser(i, TRUE, FALSE) : i \in ChatUserIds}

\* The message texts sent: a short one, and one that begins with '@' and a
\* blank and is longer than a title.
ChatContents ==
    {<<"h", "i">>,
     <<"@", " ">> \o Rep("x", TitleLen)}

\* json.dumps / json.loads, and the NULL of a column left unset
JsonDumps(v) == [json |-> v]
JsonLoads(text) == text.json
SqlNull == [null |-> TRUE]

\* A retrieved chunk summary, as the engine returns it.
Doc(i) == [content |-> <<"d", "o", "c", ToString(i)>>]
\* The lists the engine returns: nothing, and one document more than the
\* chat shows.
SourceLists == {<<>>, [i \in 1..(ShownResults + 1) |-> Doc(i)]}

\* The answer of the LLM, after RAGProxyService._clean_thinking_tags.
Answer == <<"a", "n", "s", "w", "e", "r">>
\* direct_llm_query's fallback (the Korean apology string of rag_proxy.py:109)
Apology == <<"[joesonghamnida. eungdabeul saengseonghal su eopseumnida.]">>

\* What an HTTP call to the engine can do: fail (connection error, error
\* status), or return.
QaReplies == {[ok |-> FALSE]} \cup {[ok |-> TRUE, answer |-> Answer, sources |-> l] : l \in SourceLists}
LlmReplies == {[ok |-> FALSE], [ok |-> TRUE, answer |-> Answer]}
SearchReplies == {[ok |-> FALSE]} \cup {[ok |-> TRUE, results |-> l] : l \in SourceLists}

\* RAGProxyService.question_answer: raises on failure
question_answer(reply) ==
    IF reply.ok THEN [raised |-> FALSE, answer |-> reply.answer, sources |-> reply.sources]
    ELSE [raised |-> TRUE]

\* RAGProxyService.direct_llm_query: falls back to the apology on failure
direct_llm_query(reply) ==
    IF reply.ok THEN [raised |-> FALSE, answer |-> reply.answer, sources |-> <<>>]
    ELSE [raised |-> FALSE, answer |-> Apology, sources |-> <<>>]

\* RAGProxyService.search_documents: raises on failure
search_documents(reply) ==
    IF reply.ok THEN [raised |-> FALSE, results |-> reply.results]
    ELSE [raised |-> TRUE]

\* ChatService.get_conversation: the rows with this id owned by this user
get_conversation_AnyOwner(conversation_id, user_id) ==
    {c \in convs : c.id = conversation_id}

get_conversation(conversation_id, user_id) ==
    {c \in convs : c.id = conversation_id /\ c.user_id = user_id}

\* query(Message).filter(conversation_id == id).order_by(created_at.asc()).all()
MessagesOf(conversation_id) ==
    SelectSeq(msgs, LAMBDA m : m.conversation_id = conversation_id)

\* One message of the transcript (service.py:145-161).  "Sayongja" and
\* "AI eosiseuteonteu" stand for the Korean role labels, "[chamjo munseo]"
\* and "munseo" for the Korean source header and item label.
RECURSIVE SourceLines(_, _)
SourceLines(sources, idx) ==
    IF sources = <<>> THEN <<>>
    ELSE <<"munseo ", ToString(idx), ": ">> \o Take(Head(sources).content, ContextSnippetLen)
         \o <<"...", "\n">> \o SourceLines(Tail(sources), idx + 1)

ContextOfMessage(m) ==
    <<IF m.role = "user" THEN "Sayongja" ELSE "AI eosiseuteonteu", ": ">>
    \o m.content \o <<"\n">>
    \o (IF m.role = "assistant" /\ m.sources # SqlNull /\ JsonLoads(m.sources) # <<>>
        THEN <<"\n[chamjo munseo]\n">>
             \o SourceLines(Take(JsonLoads(m.sources), ShownResults), 1)
        ELSE <<>>)
    \o <<"\n">>

RECURSIVE ConversationContext(_)
ConversationContext(history) ==
    IF history = <<>> THEN <<>>
    ELSE ContextOfMessage(Head(history)) \o ConversationContext(Tail(history))

\* full_query (service.py:186-188, 213-215); the bracketed tokens stand for
\* "[ijeon daehwa naeyong]" and "[hyeonjae jilmun]", Korean in the source.
FullQuery(context, actual_content) ==
    IF context # <<>>
    THEN <<"[ijeon daehwa naeyong]\n">> \o context \o <<"\n[hyeonjae jilmun]\n">>
         \o actual_content
    ELSE actual_content

\* use_rag and actual_content (service.py:168-169)
UseRag(content) == StartsWith(content, "@")
ActualContent(content) == IF UseRag(content) THEN Strip(Rest(content)) ELSE content

\* The branch taken at service.py:181, 208, 225
Route_IgnoringAt(content, use_vllm) ==
    IF use_vllm THEN "qa" ELSE "search"

Route(content, use_vllm) ==
    IF UseRag(content) /\ use_vllm THEN "qa"
    ELSE IF ~UseRag(content) /\ use_vllm THEN "direct"
    ELSE "search"

\* The query each branch sends (service.py:192, 219, 228)
DownstreamQuery(content, use_vllm, context) ==
    IF Route(content, use_vllm) = "search" THEN content
    ELSE FullQuery(context, ActualContent(content))

\* The marker put before a grounded answer (service.py:204-207); Korean in
\* the source: "[RAG modeu - N gae munseo chamjo]", "[RAG modeu - gwallyeon munseo eopseum]".
RagMarker(sources) ==
    IF sources # <<>>
    THEN <<"[RAG modeu - " \o ToString(Len(sources)) \o "gae munseo chamjo]", "\n\n">>
    ELSE <<"[RAG modeu - gwallyeon munseo eopseum]", "\n\n">>

\* The search-only answer (service.py:236-242)
RECURSIVE ResultLines(_, _)
ResultLines(results, i) ==
    IF results = <<>> THEN <<>>
    ELSE <<ToString(i), ". ">> \o Take(Head(results).content, SnippetLen)
         \o <<"...", "\n\n">> \o ResultLines(Tail(results), i + 1)

SearchAnswer(results) ==
    IF results # <<>>
    THEN <<"Found the following relevant information:\n\n">>
         \o ResultLines(Take(results, ShownResults), 1)
    ELSE <<"No relevant documents found.">>

\* The title derived from a message (service.py:261)
DerivedTitle(content) ==
    Take(content, TitleLen) \o (IF Len(content) > TitleLen THEN <<".", ".", ".">> ELSE <<>>)

\* The rows of a turn; "turn" numbers the request that wrote the row.
UserMessage(conversation_id, content, turn) ==
    [conversation_id |-> conversation_id, role |-> "user", content |-> content,
     sources |-> SqlNull, turn |-> turn]
AssistantMessage(conversation_id, content, sources, turn) ==
    [conversation_id |-> conversation_id, role |-> "assistant", content |-> content,
     sources |-> sources, turn |-> turn]


\* A chat response: the rows it returns, and for a finished turn the
\* downstream call the turn made.
NoCall == [path |-> "none"]
ChatResponse(op, status, detail, user_id, conversation_id, conversations, messages, call) ==
    [op |-> op, status |-> status, detail |-> detail, error |-> "",
     request |-> [user_id |-> user_id, conversation_id |-> conversation_id],
     conversations |-> conversations, messages |-> messages, call |-> call]
ChatError(op, status, detail, user_id, conversation_id) ==
    ChatResponse(op, status, detail, user_id, conversation_id, <<>>, <<>>, NoCall)

\* The conversation ids asked for: those given out so far, and the next.
ConvIds == 1..nextConvId

\* Any chat endpoint, when its dependency get_current_user refuses the
\* request: the handler does not run.
ChatDenied(tok) ==
    LET cur == get_current_user(tok)
    IN  /\ ~cur.ok
        /\ resp' = ChatError("chat", cur.status, cur.detail, 0, 0)
        /\ UNCHANGED <<users, convs, msgs, inflight, nextConvId, now, connections, chunks,
                       indexingVars>>

\* order_by(Conversation.updated_at.desc())
Newest(S) ==
    CHOOSE c \in S : \A d \in S :
        d.updated_at < c.updated_at \/ (d.updated_at = c.updated_at /\ d.id <= c.id)

RECURSIVE ByUpdatedDesc(_)
ByUpdatedDesc(S) ==
    IF S = {} THEN <<>> ELSE <<Newest(S)>> \o ByUpdatedDesc(S \ {Newest(S)})

\* The id the database gives a new conversation: ids are not given out twice.
NewConversationId == nextConvId

\* The messages left when a conversation is deleted: its own go with it.
MessagesWithout(conversation_id) ==
    SelectSeq(msgs, LAMBDA m : m.conversation_id # conversation_id)

\* POST /chat/conversations
CreateConversation(tok, title) ==
    LET cur == get_current_user(tok)
        conversation ==
            [id |-> NewConversationId, user_id |-> cur.user.id,
             title |-> IF title # <<>> THEN title ELSE DefaultTitle,
             updated_at |-> now + 1]
    IN  /\ cur.ok
        /\ now < MaxClock
        /\ convs' = convs \cup {conversation}
        /\ nextConvId' = nextConvId + 1
        /\ now' = now + 1
        /\ resp' = ChatResponse("create_conversation", 200, "", cur.user.id,
                                NewConversationId,
                                <<conversation>>, <<>>, NoCall)
        /\ UNCHANGED <<users, msgs, inflight, connections, chunks,
                       indexingVars>>

\* GET /chat/conversations
GetConversations(tok) ==
    LET cur == get_current_user(tok)
    IN  /\ cur.ok
        /\ resp' = ChatResponse("get_conversations", 200, "", cur.user.id, 0,
                            ByUpdatedDesc({c \in convs : c.user_id = cur.user.id}),
                            <<>>, NoCall)
        /\ UNCHANGED <<users, convs, msgs, inflight, nextConvId, now, connections, chunks,
                       indexingVars>>

\* GET /chat/conversations/{conversation_id}
GetConversation(tok, conversation_id) ==
    LET cur == get_current_user(tok)
        found == get_conversation(conversation_id, cur.user.id)
    IN  /\ cur.ok
        /\ IF found = {}
           THEN resp' = ChatError("get_conversation", 404, "Conversation not found",
                                  cur.user.id, conversation_id)
           ELSE resp' = ChatResponse("get_conversation", 200, "", cur.user.id, conversation_id,
                            ByUpdatedDesc(found), MessagesOf(conversation_id), NoCall)
        /\ UNCHANGED <<users, convs, msgs, inflight, nextConvId, now, connections, chunks,
                       indexingVars>>

\* DELETE /chat/conversations/{conversation_id}
DeleteConversation(tok, conversation_id) ==
    LET cur == get_current_user(tok)
        found == get_conversation(conversation_id, cur.user.id)
    IN  /\ cur.ok
        /\ IF found = {}
           THEN /\ resp' = ChatError("delete_conversation", 404, "Conversation not found",
                                     cur.user.id, conversation_id)
                /\ UNCHANGED <<convs, msgs>>
           ELSE /\ convs' = convs \ found
                /\ msgs' = MessagesWithout(conversation_id)
                /\ resp' = ChatResponse("delete_conversation", 200,
                                        "Conversation deleted successfully", cur.user.id,
                                        conversation_id, <<>>, <<>>, NoCall)
        /\ UNCHANGED <<users, inflight, nextConvId, now, connections, chunks,
                       indexingVars>>

\* The request bodies of POST .../messages
MessageBodies == {[content |-> c, use_vllm |-> v] : c \in ChatContents, v \in BOOLEAN}

\* POST /chat/conversations/{conversation_id}/messages, up to the await of
\* the downstream call (service.py:132-192, 219, 228): the turn is left in
\* flight with the user message added to its session.
SendMessageCall(tok, conversation_id, message_data) ==
    LET cur == get_current_user(tok)
        found == get_conversation(conversation_id, cur.user.id)
        conversation == CHOOSE c \in found : TRUE
        context == ConversationContext(MessagesOf(conversation_id))
        turn ==
            [turn |-> now + 1, user_id |-> cur.user.id,
             conversation_id |-> conversation_id,
             content |-> message_data.content, use_vllm |-> message_data.use_vllm,
             title |-> conversation.title,
             pending |-> <<UserMessage(conversation_id, message_data.content, now + 1)>>,
             path |-> Route(message_data.content, message_data.use_vllm),
             query |-> DownstreamQuery(message_data.content, message_data.use_vllm,
                                       context)]
    IN  /\ cur.ok
        /\ now < MaxClock
        /\ IF found = {}
           THEN /\ resp' = ChatError("send_message", 404,
                                     "Conversation " \o ToString(conversation_id)
                                         \o " not found",
                                     cur.user.id, conversation_id)
                /\ UNCHANGED <<inflight, now>>
           ELSE /\ inflight' = inflight \cup {turn}
                /\ now' = now + 1
                /\ resp' = ChatError("send_message_call", 0, "", cur.user.id, conversation_id)
        /\ UNCHANGED <<users, convs, msgs, nextConvId, connections, chunks,
                       indexingVars>>


\* What the exception handler of send_message leaves of the rows added to
\* the session (service.py:270-273): db.rollback() drops them.
Rollback_KeepsPending(pending) == pending

Rollback(pending) == <<>>

\* The replies the engine can give to the call of a turn
RepliesFor(path) ==
    IF path = "qa" THEN QaReplies ELSE IF path = "direct" THEN LlmReplies ELSE SearchReplies

\* The result of the awaited proxy call
ProxyResult(path, reply) ==
    IF path = "qa" THEN question_answer(reply)
    ELSE IF path = "direct" THEN direct_llm_query(reply)
    ELSE search_documents(reply)

\* assistant_content and sources of each branch (service.py:202-244)
AssistantContent(path, result) ==
    IF path = "qa" THEN RagMarker(result.sources) \o result.answer
    ELSE IF path = "direct" THEN result.answer
    ELSE SearchAnswer(result.results)

TurnSources(path, result) ==
    IF path = "qa" THEN result.sources
    ELSE IF path = "direct" THEN <<>>
    ELSE result.results

\* sources=json.dumps(sources) if sources else None (service.py:251)
StoredSources(sources) == IF sources # <<>> THEN JsonDumps(sources) ELSE SqlNull

\* The title written by a turn that loaded this title (service.py:258-261)
TitleAfter(loaded, content) ==
    IF loaded = <<>> \/ loaded = DefaultTitle THEN DerivedTitle(content) ELSE loaded

\* POST .../messages from the return of the awaited call (service.py:193-273,
\* router.py:193-229): the assistant message, the title and the commit, or
\* the rollback and the 500.
SendMessageReturn(turn, reply) ==
    LET result == ProxyResult(turn.path, reply)
        row == {c \in convs : c.id = turn.conversation_id}
        assistant ==
            AssistantMessage(turn.conversation_id, AssistantContent(turn.path, result),
                             StoredSources(TurnSources(turn.path, result)), turn.turn)
        call == [path |-> turn.path, query |-> turn.query, turn |-> turn.turn,
                 content |-> turn.content, use_vllm |-> turn.use_vllm, reply |-> reply]
    IN  /\ turn \in inflight
        /\ reply \in RepliesFor(turn.path)
        /\ inflight' = inflight \ {turn}
        /\ IF result.raised
           THEN /\ msgs' = msgs \o Rollback(turn.pending)
                /\ convs' = convs
                /\ resp' = ChatResponse("send_message", 500, "engine call failed",
                                        turn.user_id, turn.conversation_id, <<>>, <<>>, call)
           ELSE IF row = {}
           \* the UPDATE of the conversation matches no row: the commit
           \* raises, and the handler rolls back
           THEN /\ msgs' = msgs \o Rollback(turn.pending)
                /\ convs' = convs
                /\ resp' = ChatResponse("send_message", 500, "stale conversation row",
                                        turn.user_id, turn.conversation_id, <<>>, <<>>, call)
           ELSE /\ msgs' = msgs \o turn.pending \o <<assistant>>
                /\ convs' = (convs \ row) \cup
                        {[c EXCEPT !.updated_at = now,
                                   !.title = TitleAfter(turn.title, turn.content)]
                            : c \in row}
                /\ resp' = ChatResponse("send_message", 200, "", turn.user_id,
                                        turn.conversation_id, <<>>, turn.pending \o <<assistant>>, call)
        /\ UNCHANGED <<users, nextConvId, now, connections, chunks,
                       indexingVars>>

\* POST /chat/rag/qa (router.py:257-313).  conversation_id 0 stands for a
\* request without one.  The handler does not touch the database before
\* the awaited call returns, so it is one step.
RagQa(tok, conversation_id, query, reply) ==
    LET cur == get_current_user(tok)
        result == question_answer(reply)
        found == get_conversation(conversation_id, cur.user.id)
        saved ==
            <<UserMessage(conversation_id, query, now + 1),
              AssistantMessage(conversation_id, result.answer,
                               JsonDumps(result.sources), now + 1)>>
        call == [path |-> "qa", query |-> query, turn |-> now + 1, reply |-> reply]
    IN  /\ cur.ok
        /\ now < MaxClock
        /\ IF result.raised
           THEN /\ resp' = ChatResponse("rag_qa", 500, "engine call failed",
                                        cur.user.id, conversation_id, <<>>, <<>>, call)
                /\ UNCHANGED <<convs, msgs, now>>
           ELSE IF conversation_id # 0 /\ found # {}
           THEN /\ msgs' = msgs \o saved
                /\ convs' = (convs \ found) \cup
                                {[c EXCEPT !.updated_at = now + 1] : c \in found}
                /\ now' = now + 1
                /\ resp' = ChatResponse("rag_qa", 200, "", cur.user.id, conversation_id,
                                        <<>>, <<>>, call)
           ELSE /\ resp' = ChatResponse("rag_qa", 200, "", cur.user.id, conversation_id,
                                        <<>>, <<>>, call)
                /\ UNCHANGED <<convs, msgs, now>>
        /\ UNCHANGED <<users, inflight, nextConvId, connections, chunks,
                       indexingVars>>

InitChat ==
    /\ users = ChatUsers
    /\ resp = NoResp
    /\ convs = {}
    /\ msgs = <<>>
    /\ inflight = {}
    /\ nextConvId = 1
    /\ now = 0
    /\ connections = <<>>
    /\ chunks = {}
    /\ IndexingIdle

ConversationTitles == {<<>>, CustomTitle}

NextChat ==
    \/ \E tok \in Tokens : ChatDenied(tok)
    \/ \E tok \in Tokens, title \in ConversationTitles : CreateConversation(tok, title)
    \/ \E tok \in Tokens : GetConversations(tok)
    \/ \E tok \in Tokens, id \in ConvIds : GetConversation(tok, id)
    \/ \E tok \in Tokens, id \in ConvIds : DeleteConversation(tok, id)
    \/ \E tok \in Tokens, id \in ConvIds, body \in MessageBodies :
            SendMessageCall(tok, id, body)
    \/ \E turn \in inflight, reply \in QaReplies \cup LlmReplies \cup SearchReplies :
            SendMessageReturn(turn, reply)
    \/ \E tok \in Tokens, id \in {0} \cup ConvIds, query \in ChatContents,
          reply \in QaReplies : RagQa(tok, id, query, reply)

SpecChat == InitChat /\ [][NextChat]_vars


(***************************************************************************)
(* C2: every conversation operation is scoped to the requesting user.  A   *)
(* step taken for a request of user B returns no conversation and no       *)
(* message of another user A, and leaves the conversations of A and the    *)
(* messages in them as they were.                                          *)
(***************************************************************************)
C2_OwnedBy(u) == {c \in convs : c.user_id = u}

C2_MessagesOwnedBy(u) ==
    SelectSeq(msgs, LAMBDA m : \E c \in C2_OwnedBy(u) : c.id = m.conversation_id)

C2_Step ==
    \A a \in ChatUserIds :
        a # resp'.request.user_id =>
            /\ C2_OwnedBy(a)' = C2_OwnedBy(a)
            /\ C2_MessagesOwnedBy(a)' = C2_MessagesOwnedBy(a)
            /\ \A i \in DOMAIN resp'.conversations : resp'.conversations[i].user_id # a
            /\ \A i \in DOMAIN resp'.messages :
                   \A c \in C2_OwnedBy(a) : resp'.messages[i].conversation_id # c.id

C3_Paired ==
    /\ \A i \in DOMAIN msgs :
           msgs[i].role = "user" =>
               /\ i < Len(msgs)
               /\ msgs[i + 1].role = "assistant"
               /\ msgs[i + 1].turn = msgs[i].turn
               /\ msgs[i + 1].conversation_id = msgs[i].conversation_id
    /\ \A i \in DOMAIN msgs :
           msgs[i].role = "assistant" => i > 1 /\ msgs[i - 1].role = "user"
    /\ \A i, j \in DOMAIN msgs :
           msgs[i].turn = msgs[j].turn /\ msgs[i].role = msgs[j].role => i = j

C3_Step ==
    \A t \in inflight :
        t \notin inflight' =>
            \/ /\ resp'.status # 200
               /\ msgs' = msgs
               /\ convs' = convs
            \/ /\ resp'.status = 200
               /\ Len(msgs') = Len(msgs) + 2
               /\ SubSeq(msgs', 1, Len(msgs)) = msgs
               /\ msgs'[Len(msgs) + 1] = [conversation_id |-> t.conversation_id,
                                          role |-> "user", content |-> t.content,
                                          sources |-> SqlNull, turn |-> t.turn]
               /\ msgs'[Len(msgs) + 2].role = "assistant"
               /\ msgs'[Len(msgs) + 2].turn = t.turn
               /\ msgs'[Len(msgs) + 2].conversation_id = t.conversation_id

C3_TurnAllOrNothing == []C3_Paired /\ [][C3_Step]_vars

\* A turn whose engine call failed was answered with an error, and nothing
\* of it is in the conversation, which is still there.
C3_Witness ==
    /\ resp.op = "send_message"
    /\ resp.status = 500
    /\ ~resp.call.reply.ok
    /\ \E c \in convs : c.id = resp.request.conversation_id
    /\ \A i \in DOMAIN msgs : msgs[i].turn # resp.call.turn

(***************************************************************************)
(* C4: chat mode routing.  The one downstream call of a turn is chosen by  *)
(* whether the content begins with '@' and whether generation is asked     *)
(* for: question answering, direct LLM, or search.  A question-answering   *)
(* turn stores the answer behind the marker that counts the returned       *)
(* sources, or behind the no-document marker when none were returned; a    *)
(* direct-LLM turn stores the answer with no sources; a search turn stores *)
(* the listing of the results.                                             *)
(***************************************************************************)
C4_Path(content, use_vllm) ==
    IF content[1] = "@" /\ use_vllm THEN "qa"
    ELSE IF content[1] # "@" /\ use_vllm THEN "direct"
    ELSE "search"

C4_Routed == \A t \in inflight : t.path = C4_Path(t.content, t.use_vllm)

C4_NoSources(m) == m.sources = SqlNull \/ JsonLoads(m.sources) = <<>>

C4_Step ==
    \A t \in inflight :
        t \notin inflight' /\ resp'.status = 200 =>
            LET stored == msgs'[Len(msgs')]
                reply == resp'.call.reply
            IN  /\ resp'.call.path = C4_Path(t.content, t.use_vllm)
                /\ t.path = "qa" /\ reply.sources # <<>> =>
                       stored.content =
                           <<"[RAG modeu - " \o ToString(Len(reply.sources))
                                 \o "gae munseo chamjo]", "\n\n">> \o reply.answer
                /\ t.path = "qa" /\ reply.sources = <<>> =>
                       stored.content =
                           <<"[RAG modeu - gwallyeon munseo eopseum]", "\n\n">>
                               \o reply.answer
                /\ t.path = "direct" =>
                       /\ C4_NoSources(stored)
                       /\ stored.content \in {Answer, Apology}
                /\ t.path = "search" =>
                       \/ stored.content = <<"No relevant documents found.">>
                       \/ Head(stored.content)
                              = "Found the following relevant information:\n\n"

C4_ModeRouting == []C4_Routed /\ [][C4_Step]_vars

\* A question-answering turn stored an answer grounded in documents.
C4_Witness ==
    /\ resp.op = "send_message"
    /\ resp.status = 200
    /\ resp.call.path = "qa"
    /\ resp.call.reply.sources # <<>>
    /\ msgs # <<>>
    /\ msgs[Len(msgs)].turn = resp.call.turn

(***************************************************************************)
(* C5: for every turn whose content begins with '@', in every mode, the    *)
(* user message to be stored is the submitted content, '@' included, and   *)
(* the question in the query sent downstream is the content without the    *)
(* '@' and the blanks around the rest.                                     *)
(***************************************************************************)
\* The question of a query: what follows the current-question header, or
\* the whole query when there is no transcript before it.
C5_Question(query) ==
    LET headers == {i \in DOMAIN query : query[i] = "\n[hyeonjae jilmun]\n"}
    IN  IF headers = {} THEN query
        ELSE SubSeq(query, SetMax(headers) + 1, Len(query))

C5_AtKeptAndStripped ==
    \A t \in inflight :
        t.content[1] = "@" =>
            /\ t.pending = <<UserMessage(t.conversation_id, t.content, t.turn)>>
            /\ C5_Question(t.query) = Strip(Rest(t.content))

(***************************************************************************)
(* C7: title derivation.  A conversation created with the default title    *)
(* and holding a user message is titled by the first 50 characters of its  *)
(* first user message, with "..." after them when the message is longer.   *)
(***************************************************************************)
C7_FirstUserMessage(c) ==
    LET mine == SelectSeq(msgs, LAMBDA m : m.conversation_id = c.id /\ m.role = "user")
    IN  mine[1]

C7_TitleFromFirstMessage ==
    \A c \in convs :
        /\ c.title # CustomTitle
        /\ \E i \in DOMAIN msgs : msgs[i].conversation_id = c.id /\ msgs[i].role = "user"
        => c.title = SubSeq(C7_FirstUserMessage(c).content, 1,
                            Min(50, Len(C7_FirstUserMessage(c).content)))
                     \o (IF Len(C7_FirstUserMessage(c).content) > 50
                         THEN <<".", ".", ".">> ELSE <<>>)


(***************************************************************************)
(* The vector store of the engine (src/infrastructure/vector_store.py) and *)
(* DELETE /documents/{document_id} (src/presentation/routes.py).  A stored *)
(* chunk is kept as its id, the pair of document id and chunk index, and   *)
(* the document_id of its metadata.                                        *)
(***************************************************************************)
\* The document ids indexed, and the ids asked for in the path.
DocumentIds == {<<"A">>, <<"B">>, <<"%", "4", "1">>}

\* The percent escapes that occur in DocumentIds.
PercentEscapes == {<<"4", "1">>, <<"4", "2">>}
PercentDecoded(hex) == IF hex = <<"4", "1">> THEN "A" ELSE "B"

\* urllib.parse.unquote
RECURSIVE Unquote(_)
Unquote(s) ==
    IF s = <<>> THEN <<>>
    ELSE IF Len(s) >= 3 /\ s[1] = "%" /\ <<s[2], s[3]>> \in PercentEscapes
    THEN <<PercentDecoded(<<s[2], s[3]>>)>> \o Unquote(SubSeq(s, 4, Len(s)))
    ELSE <<Head(s)>> \o Unquote(Tail(s))

ChunkIndexes == 0..(MaxChunks - 1)

\* ChunkId(document_id, chunk_index) and the metadata written by index_chunks
StoredChunk(document_id, chunk_index) ==
    [id |-> <<document_id, chunk_index>>, document_id |-> document_id]

\* ChromaVectorStore.index_chunks: collection.upsert replaces by id
IndexChunks(document_id, indexes) ==
    /\ indexes # {}
    /\ chunks' = {c \in chunks : c.id \notin {<<document_id, i>> : i \in indexes}}
                     \cup {StoredChunk(document_id, i) : i \in indexes}
    /\ resp' = [op |-> "index_chunks", status |-> 0, detail |-> "", error |-> "",
                request |-> [document_id |-> document_id]]
    /\ UNCHANGED <<users, convs, msgs, inflight, nextConvId, now, connections,
                   indexingVars>>

\* ChromaVectorStore.delete_by_document: the chunks left and the count returned
delete_by_document_OnlyOne(stored, document_id) ==
    LET ids == {c.id : c \in {d \in stored : d.document_id = document_id}}
    IN  IF ids # {}
        THEN [chunks |-> {c \in stored : c.id # CHOOSE i \in ids : TRUE},
              count |-> Cardinality(ids)]
        ELSE [chunks |-> stored, count |-> 0]

delete_by_document(stored, document_id) ==
    LET ids == {c.id : c \in {d \in stored : d.document_id = document_id}}
    IN  IF ids # {}
        THEN [chunks |-> {c \in stored : c.id \notin ids}, count |-> Cardinality(ids)]
        ELSE [chunks |-> stored, count |-> 0]

\* DeleteDocumentUseCase.execute: whether anything was deleted; a failure
\* of the store is logged and answered as False
execute(stored, document_id, store_ok) ==
    IF store_ok
    THEN [chunks |-> delete_by_document(stored, document_id).chunks,
          success |-> delete_by_document(stored, document_id).count > 0,
          count |-> delete_by_document(stored, document_id).count]
    ELSE [chunks |-> stored, success |-> FALSE, count |-> 0]

\* DELETE /documents/{document_id}.  store_ok is whether the calls to the
\* collection return.
DeleteDocument(document_id, store_ok) ==
    LET decoded_document_id == Unquote(document_id)
        done == execute(chunks, decoded_document_id, store_ok)
    IN  /\ chunks' = done.chunks
        /\ resp' = [op |-> "delete_document", status |-> 200,
                    detail |-> IF done.success THEN "deleted successfully"
                               ELSE "not found or already deleted",
                    error |-> "",
                    request |-> [document_id |-> document_id,
                                 target |-> decoded_document_id,
                                 store_ok |-> store_ok, returned |-> done.count],
                    body |-> IF done.success
                             THEN [message |-> decoded_document_id]
                             ELSE [message |-> decoded_document_id, deleted_count |-> 0]]
        /\ UNCHANGED <<users, convs, msgs, inflight, nextConvId, now, connections,
                       indexingVars>>


(***************************************************************************)
(* Indexing one document (IndexDocumentUseCase.execute).                   *)
(***************************************************************************)
PdfSuffix == <<".", "p", "d", "f">>

\* The files asked for: document id, whether the path exists, its suffix.
IndexFiles ==
    {[document_id |-> <<"A">>, exists |-> TRUE, suffix |-> PdfSuffix],
     [document_id |-> <<"B">>, exists |-> TRUE, suffix |-> <<".", "P", "D", "F">>],
     [document_id |-> <<"A">>, exists |-> FALSE, suffix |-> PdfSuffix],
     [document_id |-> <<"A">>, exists |-> TRUE, suffix |-> <<".", "t", "x", "t">>]}

\* What the collaborators do in one execution: the stage that raises, if
\* any ("short" is an embedding batch one vector short), and the number of
\* chunks the processor creates.
IndexRuns ==
    {[fail |-> f, n |-> 0] : f \in {"extract", "chunk"}}
        \cup {[fail |-> f, n |-> k] : f \in {"none", "embed", "short", "upsert"},
                                      k \in 0..MaxChunks}

\* create_chunks, then the embeddings zipped onto the chunks
\* (use_cases.py:53, 67-72): chunk i of the document, with or without a vector
EmbeddedChunks(document_id, run) ==
    [i \in 1..run.n |->
        [document_id |-> document_id, chunk_index |-> i - 1,
         embedded |-> ~(run.fail = "short" /\ i = run.n)]]

\* ChromaVectorStore.index_chunks, as a function of the store: the ids and
\* metadata are prepared for every chunk, a chunk without embedding raising,
\* and then one upsert writes them all.
index_chunks_Partial(stored, new, upsert_ok) ==
    LET firstBad == IF \E i \in DOMAIN new : ~new[i].embedded
                    THEN CHOOSE i \in DOMAIN new : ~new[i].embedded /\
                             \A j \in DOMAIN new : ~new[j].embedded => i <= j
                    ELSE Len(new) + 1
        written == {StoredChunk(new[i].document_id, new[i].chunk_index) :
                        i \in 1..(firstBad - 1)}
    IN  [raised |-> firstBad <= Len(new) \/ ~upsert_ok,
         chunks |-> {c \in stored : c.id \notin {w.id : w \in written}} \cup written]

index_chunks(stored, new, upsert_ok) ==
    LET written == {StoredChunk(new[i].document_id, new[i].chunk_index) :
                        i \in DOMAIN new}
    IN  IF new = <<>> THEN [raised |-> FALSE, chunks |-> stored]
        ELSE IF \E i \in DOMAIN new : ~new[i].embedded
        THEN [raised |-> TRUE, chunks |-> stored]
        ELSE IF ~upsert_ok THEN [raised |-> TRUE, chunks |-> stored]
        ELSE [raised |-> FALSE,
              chunks |-> {c \in stored : c.id \notin {w.id : w \in written}}
                             \cup written]

\* IndexDocumentUseCase.execute: the error raised, or the response, and the
\* store afterwards
IndexDocumentExecute(stored, file, run) ==
    LET failed == [error |-> "", success |-> FALSE, chunks_created |-> 0,
                   document_id |-> <<>>, chunks |-> stored]
        new == EmbeddedChunks(file.document_id, run)
        indexed == index_chunks(stored, new, run.fail # "upsert")
    IN  IF ~file.exists THEN [failed EXCEPT !.error = "FileNotFoundError"]
        ELSE IF Lower(file.suffix) # PdfSuffix THEN [failed EXCEPT !.error = "ValueError"]
        ELSE IF run.fail \in {"extract", "chunk"} THEN failed
        ELSE IF run.n = 0 THEN failed
        ELSE IF run.fail = "embed" THEN failed
        ELSE IF indexed.raised THEN [failed EXCEPT !.chunks = indexed.chunks]
        ELSE [error |-> "", success |-> TRUE, chunks_created |-> run.n,
              document_id |-> file.document_id, chunks |-> indexed.chunks]

\* One call of the use case.
IndexDocument(file, run) ==
    LET done == IndexDocumentExecute(chunks, file, run)
    IN  /\ chunks' = done.chunks
        /\ resp' = [op |-> "index_document", status |-> 0, detail |-> "",
                    error |-> done.error,
                    request |-> [file |-> file, run |-> run],
                    body |-> [success |-> done.success,
                              chunks_created |-> done.chunks_created,
                              document_id |-> done.document_id]]
        /\ UNCHANGED <<users, convs, msgs, inflight, nextConvId, now, connections,
                       indexingVars>>

InitStore ==
    /\ users = {}
    /\ resp = NoResp
    /\ convs = {}
    /\ msgs = <<>>
    /\ inflight = {}
    /\ nextConvId = 1
    /\ now = 0
    /\ connections = <<>>
    /\ chunks = {}
    /\ IndexingIdle

NextStore ==
    \/ \E d \in DocumentIds, indexes \in SUBSET ChunkIndexes : IndexChunks(d, indexes)
    \/ \E d \in DocumentIds, store_ok \in BOOLEAN : DeleteDocument(d, store_ok)
    \/ \E file \in IndexFiles, run \in IndexRuns : IndexDocument(file, run)

SpecStore == InitStore /\ [][NextStore]_vars

(***************************************************************************)
(* C6: deletion is idempotent per document id.  A delete request whose     *)
(* calls to the store return removes exactly the chunks of the target      *)
(* document and the store returns their number; with no chunk of the       *)
(* target it returns 0, changes nothing, and the endpoint answers 200 "not *)
(* found or already deleted" with deleted_count 0.  No delete request is   *)
(* answered with an error, and deleting a document a second time changes   *)
(* nothing more and returns 0.                                             *)
(***************************************************************************)
C6_Of(stored, d) == {c \in stored : c.document_id = d}

C6_Step ==
    resp'.op = "delete_document" =>
        /\ resp'.status = 200
        /\ resp'.request.store_ok =>
            /\ chunks' = chunks \ C6_Of(chunks, resp'.request.target)
            /\ resp'.request.returned = Cardinality(C6_Of(chunks, resp'.request.target))
            /\ C6_Of(chunks, resp'.request.target) = {} =>
                /\ chunks' = chunks
                /\ resp'.request.returned = 0
                /\ resp'.detail = "not found or already deleted"
                /\ resp'.body.deleted_count = 0

C6_Twice ==
    \A d \in DocumentIds \cup {Unquote(x) : x \in DocumentIds} :
        LET once == delete_by_document(chunks, d)
            twice == delete_by_document(once.chunks, d)
        IN  /\ twice.chunks = once.chunks
            /\ twice.count = 0
            /\ C6_Of(once.chunks, d) = {}

C6_DeleteIdempotent == []C6_Twice /\ [][C6_Step]_vars

\* A delete of a document without chunks was answered "not found or already
\* deleted" while chunks of other documents stay stored.
C6_Witness ==
    /\ resp.op = "delete_document"
    /\ resp.request.store_ok
    /\ resp.request.returned = 0
    /\ resp.detail = "not found or already deleted"
    /\ chunks # {}


(***************************************************************************)
(* C11: toggle-active is blocked against the caller's own account.  When   *)
(* an admin targets their own account the request is rejected with 400     *)
(* "Cannot deactivate your own account" and the users table is unchanged;  *)
(* when the target is another existing user, that user's active flag is    *)
(* inverted and no other field and no other user changes.                  *)
(***************************************************************************)
C11_Step ==
    resp'.op = "admin_toggle" =>
        LET req == resp'.request
            admin == get_admin_user(req.tok)
        IN  admin.ok /\ (\E u \in users : u.id = req.user_id) =>
                LET target == CHOOSE u \in users : u.id = req.user_id
                IN  IF req.user_id = admin.user.id
                    THEN /\ resp'.status = 400
                         /\ resp'.detail = "Cannot deactivate your own account"
                         /\ users' = users
                    ELSE /\ resp'.status = 200
                         /\ users' \ users =
                                {[id |-> target.id, username |-> target.username,
                                  full_name |-> target.full_name,
                                  department |-> target.department,
                                  password_hash |-> target.password_hash,
                                  is_admin |-> target.is_admin,
                                  is_active |-> ~target.is_active]}
                         /\ users \ users' = {target}

C11_ToggleNotSelf == [][C11_Step]_vars

\* An admin tried to toggle their own account and was refused.
C11_Witness ==
    /\ resp.op = "admin_toggle"
    /\ resp.status = 400
    /\ resp.detail = "Cannot deactivate your own account"
    /\ \E u \in users : u.id = resp.request.user_id /\ u.is_admin /\ u.is_active


(***************************************************************************)
(* C12: index-one-document raises only for the two input checks, a missing *)
(* file (file-not-found error) and a suffix other than .pdf (value error). *)
(* An exception in extraction, chunking, embedding or upsert is answered   *)
(* with success false and zero chunks created.  In every failure outcome   *)
(* the store holds the chunks it held before the call.                     *)
(***************************************************************************)
C12_Step ==
    resp'.op = "index_document" =>
        LET file == resp'.request.file
            run == resp'.request.run
            isPdf == file.suffix \in {<<".", "p", "d", "f">>, <<".", "P", "D", "F">>}
        IN  /\ resp'.error = "FileNotFoundError" <=> ~file.exists
            /\ resp'.error = "ValueError" <=> file.exists /\ ~isPdf
            /\ resp'.error \in {"", "FileNotFoundError", "ValueError"}
            /\ file.exists /\ isPdf /\ run.fail # "none" =>
                   /\ resp'.error = ""
                   /\ ~resp'.body.success
                   /\ resp'.body.chunks_created = 0
            /\ resp'.error # "" \/ ~resp'.body.success => chunks' = chunks

C12_IndexFailuresContained == [][C12_Step]_vars

\* An execution whose upsert raised, on a store that already held chunks,
\* was answered as a failure.
C12_Witness ==
    /\ resp.op = "index_document"
    /\ resp.request.run.fail = "upsert"
    /\ resp.request.run.n > 0
    /\ resp.error = ""
    /\ ~resp.body.success
    /\ chunks # {}


(***************************************************************************)
(* Indexing a directory (IndexDirectoryUseCase.execute).  dir holds one    *)
(* run: the files enumerated, each per-file task's position, the number of *)
(* times the per-file use case was executed for it, the semaphore's free   *)
(* permits, the counters of process_file, and the response once returned.  *)
(***************************************************************************)
\* The entries a directory tree can hold, in the order rglob meets them.
EntryPool ==
    <<<<"a">> \o PdfSuffix, <<"n", ".", "t", "x", "t">>, <<"b">> \o PdfSuffix,
      <<"c", ".", "P", "D", "F">>, <<"d">> \o PdfSuffix, <<"e">> \o PdfSuffix,
      <<"f">> \o PdfSuffix>>

\* The directories indexed: the first k entries of the pool.
Directories == {SubSeq(EntryPool, 1, k) : k \in 0..Min(MaxEntries, Len(EntryPool))}

\* max_files: 0 stands for None
MaxFilesChoices == {0, 2}

\* fnmatch of a name against "*.pdf"
MatchesPdf(name) ==
    Len(name) >= Len(PdfSuffix)
        /\ SubSeq(name, Len(name) - Len(PdfSuffix) + 1, Len(name)) = PdfSuffix

\* list(directory.rglob("*.pdf")), then the cap (use_cases.py:236-239)
PdfFiles(entries, max_files) ==
    LET found == SelectSeq(entries, MatchesPdf)
    IN  IF max_files # 0 THEN Take(found, max_files) ELSE found

\* What one per-file execution can do: succeed, answer a failure, or raise
\* (the path no longer exists when the task reaches it).
FileOutcomes == {"success", "failure", "raise"}

\* chunks_created of the successful response for file i
ChunksCreatedFor(i) == 1 + (i % 2)

ZeroCounters ==
    [success_count |-> 0, failed_count |-> 0, total_chunks |-> 0, failed_files |-> <<>>]

\* process_file after the await (use_cases.py:254-259)
process_file_DropsFailure(counters, name, success, chunks_created) ==
    IF success
    THEN [counters EXCEPT !.success_count = @ + 1, !.total_chunks = @ + chunks_created]
    ELSE [counters EXCEPT !.failed_count = @ + 1]

process_file(counters, name, success, chunks_created) ==
    IF success
    THEN [counters EXCEPT !.success_count = @ + 1, !.total_chunks = @ + chunks_created]
    ELSE [counters EXCEPT !.failed_count = @ + 1,
                          !.failed_files = Append(@, name)]

\* Semaphore.acquire without waiting
CanAcquire_Always(permits) == TRUE

CanAcquire(permits) == permits > 0

IndexDirectoryResponse(pdf_files, counters) ==
    [total_files |-> Len(pdf_files), success_count |-> counters.success_count,
     failed_count |-> counters.failed_count,
     total_chunks_created |-> counters.total_chunks,
     failed_files |-> counters.failed_files]

NoDirResponse == [total_files |-> -1]

\* execute up to the creation of the tasks (use_cases.py:228-275); with no
\* task it returns at once
DirectoryStart(exists, entries, max_files) ==
    LET pdf_files == PdfFiles(entries, max_files)
    IN  /\ dir.phase = "none"
        /\ dir' =
             IF ~exists
             THEN [phase |-> "raised", error |-> "ValueError", entries |-> entries,
                   max_files |-> max_files, pdf_files |-> <<>>, task |-> <<>>,
                   outcome |-> <<>>, executed |-> <<>>, permits |-> SemaphoreLimit,
                   counters |-> ZeroCounters, response |-> NoDirResponse]
             ELSE [phase |-> IF pdf_files = <<>> THEN "returned" ELSE "running",
                   error |-> "", entries |-> entries, max_files |-> max_files,
                   pdf_files |-> pdf_files,
                   task |-> [i \in DOMAIN pdf_files |-> "pending"],
                   outcome |-> [i \in DOMAIN pdf_files |-> "none"],
                   executed |-> [i \in DOMAIN pdf_files |-> 0],
                   permits |-> SemaphoreLimit, counters |-> ZeroCounters,
                   response |-> IF pdf_files = <<>>
                                THEN IndexDirectoryResponse(pdf_files, ZeroCounters)
                                ELSE NoDirResponse]
        /\ UNCHANGED <<users, resp, convs, msgs, inflight, nextConvId, now, connections,
                       chunks, progress, jobs, channel, container>>

\* process_with_limit entering the semaphore and calling the per-file use
\* case, which suspends (use_cases.py:267-269, 251-252)
FileStart(i) ==
    /\ dir.phase # "none"
    /\ i \in DOMAIN dir.task
    /\ dir.task[i] = "pending"
    /\ CanAcquire(dir.permits)
    /\ dir' = [dir EXCEPT !.task[i] = "running", !.executed[i] = @ + 1,
                          !.permits = @ - 1]
    /\ UNCHANGED <<users, resp, convs, msgs, inflight, nextConvId, now, connections,
                   chunks, progress, jobs, channel, container>>

\* The per-file use case returning or raising: the counters, the release of
\* the semaphore, and the loop over as_completed taking the result; the
\* last result returns the response, a raised one ends execute with it.
FileEnd(i, outcome) ==
    LET counters ==
            IF outcome = "raise" THEN dir.counters
            ELSE process_file(dir.counters, dir.pdf_files[i], outcome = "success",
                              IF outcome = "success" THEN ChunksCreatedFor(i) ELSE 0)
        allDone == \A j \in DOMAIN dir.task : j # i => dir.task[j] = "done"
    IN  /\ dir.phase # "none"
        /\ i \in DOMAIN dir.task
        /\ dir.task[i] = "running"
        /\ dir' = [dir EXCEPT
                     !.task[i] = "done",
                     !.outcome[i] = outcome,
                     !.permits = @ + 1,
                     !.counters = counters,
                     !.phase = IF @ = "running" /\ outcome = "raise" THEN "raised"
                               ELSE IF @ = "running" /\ allDone THEN "returned"
                               ELSE @,
                     !.error = IF dir.phase = "running" /\ outcome = "raise"
                               THEN "FileNotFoundError" ELSE @,
                     !.response = IF dir.phase = "running" /\ outcome # "raise" /\ allDone
                                  THEN IndexDirectoryResponse(dir.pdf_files, counters)
                                  ELSE @]
        /\ UNCHANGED <<users, resp, convs, msgs, inflight, nextConvId, now, connections,
                       chunks, progress, jobs, channel, container>>

InitDirectory ==
    /\ users = {}
    /\ resp = NoResp
    /\ convs = {}
    /\ msgs = <<>>
    /\ inflight = {}
    /\ nextConvId = 1
    /\ now = 0
    /\ connections = <<>>
    /\ chunks = {}
    /\ IndexingIdle

TaskIds == 1..Len(EntryPool)

NextDirectory ==
    \/ \E exists \in BOOLEAN, entries \in Directories, max_files \in MaxFilesChoices :
           DirectoryStart(exists, entries, max_files)
    \/ \E i \in TaskIds : FileStart(i)
    \/ \E i \in TaskIds, outcome \in FileOutcomes : FileEnd(i, outcome)

SpecDirectory == InitDirectory /\ [][NextDirectory]_vars

\* The event loop runs every task that can run, and every per-file
\* execution ends.
FairDirectory ==
    /\ SpecDirectory
    /\ \A i \in TaskIds : WF_vars(FileStart(i))
    /\ \A i \in TaskIds : WF_vars(\E outcome \in FileOutcomes : FileEnd(i, outcome))


(***************************************************************************)
(* C13: the response of a directory run counts exactly the .pdf entries    *)
(* (at most max_files of them when it is given), every counted file was    *)
(* executed exactly once, success_count + failed_count = total_files,      *)
(* total_chunks_created is the sum of chunks_created over the successful   *)
(* files, and failed_files lists exactly the files that did not succeed.   *)
(* No file is ever executed twice.                                         *)
(***************************************************************************)
RECURSIVE C13_ChunkSum(_)
C13_ChunkSum(is) ==
    IF is = {} THEN 0
    ELSE LET i == CHOOSE j \in is : TRUE
         IN  ChunksCreatedFor(i) + C13_ChunkSum(is \ {i})

C13_PdfCount == Cardinality({k \in DOMAIN dir.entries : MatchesPdf(dir.entries[k])})

C13_With(outcome) == {i \in DOMAIN dir.task : dir.outcome[i] = outcome}

C13_Response ==
    dir.phase = "returned" =>
        /\ dir.response.total_files =
             IF dir.max_files # 0 THEN Min(dir.max_files, C13_PdfCount) ELSE C13_PdfCount
        /\ \A i \in DOMAIN dir.pdf_files : MatchesPdf(dir.pdf_files[i])
        /\ \A i \in DOMAIN dir.task : dir.executed[i] = 1
        /\ dir.response.success_count + dir.response.failed_count
             = dir.response.total_files
        /\ dir.response.success_count = Cardinality(C13_With("success"))
        /\ dir.response.total_chunks_created = C13_ChunkSum(C13_With("success"))
        /\ Len(dir.response.failed_files) = Cardinality(C13_With("failure"))
        /\ {dir.response.failed_files[k] : k \in DOMAIN dir.response.failed_files}
             = {dir.pdf_files[i] : i \in C13_With("failure")}

C13_OnceEach == dir.phase # "none" => \A i \in DOMAIN dir.task : dir.executed[i] <= 1

C13_DirectoryAggregation == [](C13_Response /\ C13_OnceEach)

\* a capped run over a directory with other entries: one file succeeded,
\* one failed
C13_Witness ==
    /\ dir.phase = "returned"
    /\ dir.max_files = 2
    /\ C13_PdfCount > 2
    /\ \E k \in DOMAIN dir.entries : ~MatchesPdf(dir.entries[k])
    /\ dir.response.success_count = 1
    /\ dir.response.failed_count = 1

(***************************************************************************)
(* C14: at every moment of a directory run at most 3 per-file executions   *)
(* are in flight, and every enumerated file is eventually started.         *)
(***************************************************************************)
C14_InFlight == {i \in DOMAIN dir.task : dir.task[i] = "running"}

C14_AtMostThree == dir.phase # "none" => Cardinality(C14_InFlight) <= 3

C14_Started(i) ==
    (dir.phase # "none" /\ i \in DOMAIN dir.task)
        ~> (dir.phase # "none" /\ i \in DOMAIN dir.task /\ dir.task[i] # "pending")

C14_BoundedConcurrency == []C14_AtMostThree /\ \A i \in TaskIds : C14_Started(i)

\* every slot taken while another enumerated file waits
C14_Witness ==
    /\ dir.phase = "running"
    /\ Cardinality(C14_InFlight) = 3
    /\ \E i \in DOMAIN dir.task : dir.task[i] = "pending"


(***************************************************************************)
(* Vector-store search (ChromaVectorStore.search).  In this part chunks    *)
(* holds the stored rows by their metadata, each with its cosine distance  *)
(* to the query embedding of the behaviour.                                *)
(***************************************************************************)
ChunkTypes == {"text", "table"}

Distances == {0, 1, 2}

SearchRows ==
    {[document_id |-> c[1], chunk_index |-> c[2], chunk_type |-> c[3],
      has_gait_params |-> c[4], distance |-> d] :
        c \in {<<"A", 0, "text", TRUE>>, <<"A", 1, "table", FALSE>>,
               <<"B", 0, "text", FALSE>>, <<"B", 1, "table", TRUE>>},
        d \in Distances}

\* Stores of at most MaxRows rows, one row per chunk id.
SearchStores ==
    {rows \in SUBSET SearchRows :
        /\ Cardinality(rows) <= MaxRows
        /\ \A r1, r2 \in rows :
             (r1.document_id = r2.document_id /\ r1.chunk_index = r2.chunk_index)
                 => r1 = r2}

\* min_score as a fraction <<numerator, denominator>> in [0, 1]
MinScores == {<<0, 1>>, <<1, 2>>, <<1, 1>>}

\* SearchQuery: an empty list stands for None as well (both are falsy)
SearchQueries ==
    [limit : 1..MaxLimit,
     document_types : {<<>>, <<"text">>, <<"text", "table">>},
     require_gait_params : BOOLEAN,
     paper_ids : {<<>>, <<"A">>},
     min_score : MinScores]

Elems(seq) == {seq[k] : k \in DOMAIN seq}

\* the where clause built at vector_store.py:151-175, applied to one row
Where(query, row) ==
    /\ query.document_types # <<>> => row.chunk_type \in Elems(query.document_types)
    /\ query.require_gait_params => row.has_gait_params = TRUE
    /\ query.paper_ids # <<>> => row.document_id \in Elems(query.paper_ids)

\* collection.query(n_results, where): up to n_results distinct rows that
\* satisfy where, nearest first (the index is approximate: any such answer)
CollectionQuery(rows, query) ==
    LET matching == {r \in rows : Where(query, r)}
    IN  {h \in UNION {[1..k -> matching] : k \in 0..Min(query.limit, Cardinality(matching))} :
            /\ \A i, j \in DOMAIN h : i # j => h[i] # h[j]
            /\ \A i, j \in DOMAIN h : i < j => h[i].distance <= h[j].distance}

\* score = 1.0 / (1.0 + distance), as a fraction
Score(distance) == <<1, 1 + distance>>

FractionLess(a, b) == a[1] * b[2] < b[1] * a[2]

SearchResult(row) ==
    [chunk |-> [document_id |-> row.document_id, chunk_index |-> row.chunk_index,
                chunk_type |-> row.chunk_type,
                has_gait_parameters |-> row.has_gait_params],
     score |-> Score(row.distance)]

\* the loop over the returned ids (vector_store.py:186-229)
RECURSIVE ParseResults_KeepAll(_, _)
ParseResults_KeepAll(hits, min_score) ==
    IF hits = <<>> THEN <<>>
    ELSE <<SearchResult(Head(hits))>> \o ParseResults_KeepAll(Tail(hits), min_score)

RECURSIVE ParseResults(_, _)
ParseResults(hits, min_score) ==
    IF hits = <<>> THEN <<>>
    ELSE IF FractionLess(Score(Head(hits).distance), min_score)
         THEN ParseResults(Tail(hits), min_score)
         ELSE <<SearchResult(Head(hits))>> \o ParseResults(Tail(hits), min_score)

Search(query) ==
    /\ \E hits \in CollectionQuery(chunks, query) :
           resp' = [op |-> "search", query |-> query, hits |-> hits,
                    results |-> ParseResults(hits, query.min_score)]
    /\ UNCHANGED <<users, convs, msgs, inflight, nextConvId, now, connections, chunks,
                   indexingVars>>

InitSearch ==
    /\ users = {}
    /\ resp = NoResp
    /\ convs = {}
    /\ msgs = <<>>
    /\ inflight = {}
    /\ nextConvId = 1
    /\ now = 0
    /\ connections = <<>>
    /\ chunks \in SearchStores
    /\ IndexingIdle

NextSearch == \E query \in SearchQueries : Search(query)

SpecSearch == InitSearch /\ [][NextSearch]_vars

(***************************************************************************)
(* C15: every result of a search satisfies every filter of its query: its  *)
(* content type is among the requested types when types are given, it has  *)
(* gait parameters when they are required, its document id is in the       *)
(* allow-list when one is given, its score 1 / (1 + distance) is at least  *)
(* min_score; and there are at most limit results.                         *)
(***************************************************************************)
C15_Satisfies(query, result) ==
    /\ query.document_types # <<>> =>
           \E k \in DOMAIN query.document_types :
               query.document_types[k] = result.chunk.chunk_type
    /\ query.require_gait_params => result.chunk.has_gait_parameters
    /\ query.paper_ids # <<>> =>
           \E k \in DOMAIN query.paper_ids :
               query.paper_ids[k] = result.chunk.document_id
    /\ \E r \in chunks :
           /\ r.document_id = result.chunk.document_id
           /\ r.chunk_index = result.chunk.chunk_index
           /\ result.score[1] * (1 + r.distance) = result.score[2]
    /\ result.score[1] * query.min_score[2] >= query.min_score[1] * result.score[2]

C15_Filtered ==
    resp # NoResp =>
        /\ \A k \in DOMAIN resp.results : C15_Satisfies(resp.query, resp.results[k])
        /\ Len(resp.results) <= resp.query.limit

C15_SearchFiltered == []C15_Filtered

\* a search under all three filters and a minimum score that kept one hit
\* and discarded another
C15_Witness ==
    /\ resp # NoResp
    /\ resp.query.document_types # <<>>
    /\ resp.query.require_gait_params
    /\ resp.query.paper_ids # <<>>
    /\ resp.query.min_score = <<1, 2>>
    /\ Len(resp.results) = 1
    /\ \E r \in chunks : ~Where(resp.query, r)

\* a hit discarded below the minimum score
C15_WitnessDiscard ==
    /\ resp # NoResp
    /\ Len(resp.hits) > Len(resp.results)
    /\ Len(resp.results) >= 1


(***************************************************************************)
(* Indexing progress (rag/websocket.py) and background reindexing          *)
(* (rag/routes.py, reindex_all_documents).  progress is progress_data,     *)
(* connections is active_connections, jobs holds the background tasks      *)
(* with their positions, channel the lock, the broadcast in progress and   *)
(* what was put on the observers' connections.                             *)
(***************************************************************************)
\* deque(maxlen=LogLimit).append
LogAppend_Unbounded(log, entry) == Append(log, entry)

LogAppend(log, entry) ==
    LET l == Append(log, entry)
    IN  IF Len(l) > LogLimit THEN Tail(l) ELSE l

\* The body of update_progress under the lock: every key of the update is
\* assigned, but "message", which is appended to the log with the time.
ApplyUpdate(p, update) ==
    LET q == [k \in DOMAIN p |->
                 IF k \in DOMAIN update /\ k # "messages" THEN update[k] ELSE p[k]]
    IN  IF "message" \in DOMAIN update
        THEN [q EXCEPT !["messages"] =
                 LogAppend(@, [time |-> now, text |-> update["message"]])]
        ELSE q

\* start_indexing, file_processing, finish_indexing and the two updates of
\* run_indexing
StartUpdate(total_files) ==
    [status |-> "indexing", total_files |-> total_files, completed_files |-> 0,
     processed_files |-> <<>>, failed_files |-> <<>>, chunks_created |-> 0,
     start_time |-> now, message |-> <<"Starting indexing of", total_files>>]

FileProcessingUpdate(filename) ==
    [current_file |-> filename, message |-> <<"Processing:", filename>>]

FinishUpdate(p) ==
    [status |-> "completed", current_file |-> NoFile,
     message |-> <<"Indexing completed:", Len(p.processed_files), Len(p.failed_files)>>]

OverallUpdate(idx, total) ==
    [completed_files |-> idx, message |-> <<"Progress:", idx, total>>]

ErrorUpdate == [status |-> "error", message |-> <<"Error:">>]

\* file_completed before its update_progress: progress_data is changed
\* without the lock
FileCompleted_Unrecorded(p, filename, chunks_created, success) ==
    [p EXCEPT !.completed_files = @ + 1, !.current_file = NoFile]

\* file_completed leaving completed_files as it was
FileCompleted_Uncounted(p, filename, chunks_created, success) ==
    IF success
    THEN [p EXCEPT !.processed_files = Append(@, filename),
                   !.chunks_created = @ + chunks_created, !.current_file = NoFile]
    ELSE [p EXCEPT !.failed_files = Append(@, filename), !.current_file = NoFile]

FileCompleted(p, filename, chunks_created, success) ==
    IF success
    THEN [p EXCEPT !.processed_files = Append(@, filename),
                   !.chunks_created = @ + chunks_created,
                   !.completed_files = @ + 1, !.current_file = NoFile]
    ELSE [p EXCEPT !.failed_files = Append(@, filename),
                   !.completed_files = @ + 1, !.current_file = NoFile]

FileCompletedUpdate(filename, chunks_created, success) ==
    [message |-> IF success THEN <<"Completed:", filename, chunks_created>>
                 ELSE <<"Failed:", filename>>]

\* The data directory as rglob meets it: entries of the pool, up to
\* MaxDataFiles of them .pdf files.
DataDirs ==
    {SubSeq(EntryPool, 1, k) : k \in {n \in 0..Len(EntryPool) :
        Len(PdfFiles(SubSeq(EntryPool, 1, n), 0)) <= MaxDataFiles}}

\* The data directories with at most one entry.
SmallDataDirs == {<<>>, SubSeq(EntryPool, 1, 1)}

\* What an index request can come to: 200 with the engine's success, 200
\* with the engine's failure result (success = false, chunks_created = 0),
\* another status, or an exception (the 120 s timeout among them)
RequestOutcomes == {"ok", "unsuccessful", "status", "exception"}

NewJob ==
    [pc |-> "start", files |-> <<>>, idx |-> 0, update |-> ErrorUpdate, ret |-> "end",
     requested |-> <<>>, failed |-> {}, indexed |-> {}]

\* run_indexing from the top of the for loop to its next update_progress
NextFile(job, p) ==
    IF job.idx <= Len(job.files)
    THEN [job EXCEPT !.pc = "update",
                     !.update = FileProcessingUpdate(job.files[job.idx]),
                     !.ret = "request"]
    ELSE [job EXCEPT !.pc = "update", !.update = FinishUpdate(p), !.ret = "end"]

\* run_indexing from the return of an update_progress to its next await
AfterUpdate(job, p) ==
    CASE job.ret = "file" -> NextFile(job, p)
      [] job.ret = "request" ->
             [job EXCEPT !.pc = "request", !.requested = Append(@, job.idx)]
      [] job.ret = "overall" ->
             [job EXCEPT !.pc = "update",
                         !.update = OverallUpdate(job.idx, Len(job.files)),
                         !.ret = "sleep"]
      [] job.ret = "sleep" -> [job EXCEPT !.pc = "sleep"]
      [] OTHER -> [job EXCEPT !.pc = "done"]

\* the iteration of broadcast reaching the next element of
\* active_connections, and the send it starts there
SendTo(bcast, target) ==
    [bcast EXCEPT !.idx = @ + 1, !.target = target, !.sent = Append(@, target)]

\* the loop "for conn in disconnected: self.disconnect(conn)"
WithoutAll_Kept(list, gone) == list

RECURSIVE WithoutAll(_, _)
WithoutAll(list, gone) ==
    IF gone = <<>> THEN list ELSE WithoutAll(Without(list, Head(gone)), Tail(gone))

\* POST /reindex for an admin: the store is reset (a failure of either
\* reset is only logged) and run_indexing is added as a background task
Reindex(maxJobs) ==
    /\ Len(jobs) < maxJobs
    /\ jobs' = Append(jobs, NewJob)
    /\ chunks' \in {chunks, {}}
    /\ UNCHANGED <<users, resp, convs, msgs, inflight, nextConvId, now, connections,
                   dir, progress, channel, container>>

\* run_indexing to its first update_progress: the enumeration, which may
\* raise into the outer handler
JobStart(j, files, raised) ==
    /\ j \in DOMAIN jobs
    /\ jobs[j].pc = "start"
    /\ jobs' = [jobs EXCEPT ![j] =
                  IF raised
                  THEN [@ EXCEPT !.pc = "update", !.update = ErrorUpdate, !.ret = "end"]
                  ELSE [@ EXCEPT !.pc = "update", !.files = files, !.idx = 1,
                                 !.update = StartUpdate(Len(files)), !.ret = "file"]]
    /\ UNCHANGED <<users, resp, convs, msgs, inflight, nextConvId, now, connections,
                   chunks, dir, progress, channel, container>>

\* update_progress: the lock is taken, the update applied and the broadcast
\* begun; with no observer it returns at once
UpdateProgress(j) ==
    LET p == ApplyUpdate(progress, jobs[j].update)
    IN  /\ j \in DOMAIN jobs
        /\ jobs[j].pc = "update"
        /\ channel.lock = 0
        /\ progress' = p
        /\ IF connections = <<>>
           THEN /\ jobs' = [jobs EXCEPT ![j] = AfterUpdate(@, p)]
                /\ channel' = [channel EXCEPT !.bcast = NoBroadcast]
           ELSE /\ jobs' = [jobs EXCEPT ![j].pc = "sending"]
                /\ channel' =
                     [channel EXCEPT
                        !.lock = j,
                        !.bcast = SendTo([NoBroadcast EXCEPT
                                            !.active = TRUE, !.by = j,
                                            !.present = Elems(connections)],
                                         connections[1]),
                        !.early = IF connections[1] \in channel.greeted THEN @
                                  ELSE @ \cup {connections[1]},
                        !.wire = [to |-> connections[1], kind |-> "update"]]
        /\ UNCHANGED <<users, resp, convs, msgs, inflight, nextConvId, now, connections,
                       chunks, dir, container>>

\* A send of the broadcast returning (ok) or raising: the loop goes on to
\* the next element of the list as it is now, or ends: the failed
\* connections are removed, the lock released, and the job runs on.
SendEnd(j, ok) ==
    LET b == channel.bcast
        failed == IF ok THEN b.failed ELSE Append(b.failed, b.target)
    IN  /\ j \in DOMAIN jobs
        /\ jobs[j].pc = "sending"
        /\ channel.lock = j
        /\ IF b.idx < Len(connections)
           THEN LET target == connections[b.idx + 1]
                IN  /\ channel' =
                          [channel EXCEPT
                             !.bcast = SendTo([b EXCEPT !.failed = failed], target),
                             !.early = IF target \in channel.greeted THEN @
                                       ELSE @ \cup {target},
                             !.wire = [to |-> target, kind |-> "update"]]
                    /\ UNCHANGED <<jobs, connections>>
           ELSE /\ connections' = WithoutAll(connections, failed)
                /\ channel' =
                     [channel EXCEPT
                        !.lock = 0,
                        !.bcast = [NoBroadcast EXCEPT !.failed = failed],
                        !.greeted = @ \ Elems(failed)]
                /\ jobs' = [jobs EXCEPT ![j] = AfterUpdate(@, progress)]
        /\ UNCHANGED <<users, resp, convs, msgs, inflight, nextConvId, now, chunks,
                       dir, progress, container>>

\* The index request of the current file ending, and file_completed up to
\* its update_progress
JobResponse(j, outcome) ==
    LET job == jobs[j]
        filename == job.files[job.idx]
        success == outcome \in {"ok", "unsuccessful"}
        chunks_created == IF outcome = "ok" THEN ChunksCreatedFor(job.idx) ELSE 0
    IN  /\ j \in DOMAIN jobs
        /\ job.pc = "request"
        /\ progress' = FileCompleted(progress, filename, chunks_created, success)
        /\ jobs' = [jobs EXCEPT ![j] =
                      [@ EXCEPT !.pc = "update",
                                !.update = FileCompletedUpdate(filename, chunks_created,
                                                               success),
                                !.ret = "overall",
                                !.failed = IF success THEN @ ELSE @ \cup {job.idx},
                                !.indexed = IF outcome = "ok" THEN @ \cup {job.idx}
                                            ELSE @]]
        /\ UNCHANGED <<users, resp, convs, msgs, inflight, nextConvId, now, connections,
                       chunks, dir, channel, container>>

\* asyncio.sleep(0.5) returning: the loop takes the next file
JobWake(j) ==
    /\ j \in DOMAIN jobs
    /\ jobs[j].pc = "sleep"
    /\ jobs' = [jobs EXCEPT ![j] = NextFile([@ EXCEPT !.idx = @ + 1], progress)]
    /\ UNCHANGED <<users, resp, convs, msgs, inflight, nextConvId, now, connections,
                   chunks, dir, progress, channel, container>>

\* active_connections while accept is awaited
ListAtAccept_Appended(list, w) == Append(list, w)

ListAtAccept(list, w) == list

\* websocket_progress entering connect: accept is awaited.  A connection
\* is a new object: a name the running broadcast still refers to is not
\* taken again.
ObserverAccept(w) ==
    /\ ~InList(connections, w)
    /\ w \notin channel.accepting
    /\ ~(channel.bcast.active /\ w \in Elems(channel.bcast.sent))
    /\ connections' = ListAtAccept(connections, w)
    /\ channel' = [channel EXCEPT !.accepting = @ \cup {w}, !.greeted = @ \ {w},
                                  !.early = @ \ {w}]
    /\ UNCHANGED <<users, resp, convs, msgs, inflight, nextConvId, now, chunks, dir,
                   progress, jobs, container>>

\* accept returning: the connection is appended and the snapshot sent on it
ObserverListed(w) ==
    /\ w \in channel.accepting
    /\ connections' = IF InList(connections, w) THEN connections
                      ELSE Append(connections, w)
    /\ channel' = [channel EXCEPT
                     !.accepting = @ \ {w},
                     !.greeted = @ \cup {w},
                     !.wire = [to |-> w, kind |-> "snapshot", data |-> progress]]
    /\ UNCHANGED <<users, resp, convs, msgs, inflight, nextConvId, now, chunks, dir,
                   progress, jobs, container>>

\* websocket_progress on WebSocketDisconnect: disconnect
ObserverDisconnect(w) ==
    /\ InList(connections, w)
    /\ w \notin channel.accepting
    /\ connections' = Without(connections, w)
    /\ channel' = [channel EXCEPT
                     !.greeted = @ \ {w},
                     !.bcast.left = IF channel.bcast.active THEN @ \cup {w} ELSE @]
    /\ UNCHANGED <<users, resp, convs, msgs, inflight, nextConvId, now, chunks, dir,
                   progress, jobs, container>>

InitProgress ==
    /\ users = {}
    /\ resp = NoResp
    /\ convs = {}
    /\ msgs = <<>>
    /\ inflight = {}
    /\ nextConvId = 1
    /\ now = 0
    /\ connections = <<>>
    /\ chunks = {}
    /\ IndexingIdle

NextJobs(maxJobs, dirs) ==
    \/ Reindex(maxJobs)
    \/ \E j \in 1..maxJobs, files \in dirs, raised \in BOOLEAN :
           JobStart(j, PdfFiles(files, 0), raised)
    \/ \E j \in 1..maxJobs : UpdateProgress(j)
    \/ \E j \in 1..maxJobs, ok \in BOOLEAN : SendEnd(j, ok)
    \/ \E j \in 1..maxJobs, outcome \in RequestOutcomes : JobResponse(j, outcome)
    \/ \E j \in 1..maxJobs : JobWake(j)

NextObservers(observers) ==
    \/ \E w \in observers : ObserverAccept(w)
    \/ \E w \in observers : ObserverListed(w)
    \/ \E w \in observers : ObserverDisconnect(w)

\* Reindex requests, each starting a job, with one observer of the progress
\* channel.
NextReindex == NextJobs(MaxJobs, SmallDataDirs) \/ NextObservers({1})

SpecReindex == InitProgress /\ [][NextReindex]_vars

\* One reindex job over the data directory, with one observer.
NextJob == NextJobs(1, DataDirs) \/ NextObservers({1})

SpecJob == InitProgress /\ [][NextJob]_vars

\* The scheduler runs the background task, and every outbound call (the
\* index request, a send to an observer, the sleep) returns or raises.
FairJob ==
    /\ SpecJob
    /\ WF_vars(\E files \in DataDirs, raised \in BOOLEAN :
                   JobStart(1, PdfFiles(files, 0), raised))
    /\ WF_vars(UpdateProgress(1))
    /\ WF_vars(\E ok \in BOOLEAN : SendEnd(1, ok))
    /\ WF_vars(\E outcome \in RequestOutcomes : JobResponse(1, outcome))
    /\ WF_vars(JobWake(1))

\* One reindex job with the observers of the progress channel.
NextBroadcast == NextJobs(1, SmallDataDirs) \/ NextObservers(WsClients)

SpecBroadcast == InitProgress /\ [][NextBroadcast]_vars


\* update_progress({"message": text}) with no observer connected and the
\* lock free: the whole call runs without suspending.
ProgressMessage(text) ==
    /\ now < MaxLogUpdates
    /\ channel.lock = 0
    /\ connections = <<>>
    /\ progress' = ApplyUpdate(progress, [message |-> text])
    /\ now' = now + 1
    /\ UNCHANGED <<users, resp, convs, msgs, inflight, nextConvId, connections, chunks,
                   dir, jobs, channel, container>>

NextLog == ProgressMessage(<<"Progress:">>)

SpecLog == InitProgress /\ [][NextLog]_vars

(***************************************************************************)
(* C16: a reindex job always ends, and ends with the status set to         *)
(* "completed" or "error"; a failed index request is recorded in           *)
(* failed_files for its file, and every enumerated file is requested       *)
(* whatever became of the files before it.                                 *)
(***************************************************************************)
C16_Ended(j) == j \in DOMAIN jobs /\ jobs[j].pc = "done"

C16_EndStep ==
    \A j \in DOMAIN jobs :
        (jobs[j].pc # "done" /\ jobs'[j].pc = "done")
            => progress'.status \in {"completed", "error"}

C16_FailureStep ==
    \A j \in DOMAIN jobs :
        (jobs[j].pc = "request" /\ jobs'[j].failed # jobs[j].failed)
            => /\ jobs[j].files[jobs[j].idx] \in Elems(progress'.failed_files)
               /\ jobs'[j].pc # "done"

C16_AllRequested ==
    \A j \in DOMAIN jobs :
        (jobs[j].pc = "done" /\ jobs[j].idx > 0)
            => jobs[j].requested = [i \in 1..Len(jobs[j].files) |-> i]

C16_JobContained ==
    /\ [][C16_EndStep /\ C16_FailureStep]_vars
    /\ []C16_AllRequested
    /\ (1 \in DOMAIN jobs) ~> C16_Ended(1)

\* a job over two files ended "completed": the first request failed, the
\* second succeeded
C16_Witness ==
    /\ C16_Ended(1)
    /\ Len(jobs[1].files) = 2
    /\ jobs[1].failed = {1}
    /\ progress.status = "completed"
    /\ Len(progress.failed_files) = 1
    /\ Len(progress.processed_files) = 1

(***************************************************************************)
(* C17 as claimed: at no moment are two index requests of reindexing in    *)
(* flight, and at most one reindex job is writing the progress record,     *)
(* also when the endpoint is called again during a reindex.                *)
(***************************************************************************)
C17_InFlight == {j \in DOMAIN jobs : jobs[j].pc = "request"}

C17_Writers == {j \in DOMAIN jobs : jobs[j].pc \notin {"start", "done"}}

C17_OneFileAtATime ==
    /\ Cardinality(C17_InFlight) <= 1
    /\ Cardinality(C17_Writers) <= 1

(***************************************************************************)
(* C18 as claimed: a broadcast that ends has sent its update exactly once  *)
(* to every observer that was connected when it started and stayed         *)
(* connected until it ended.                                               *)
(***************************************************************************)
C18_TimesSent(w) ==
    Cardinality({k \in DOMAIN channel.bcast.sent : channel.bcast.sent[k] = w})

C18_BroadcastEnds == channel.bcast.active /\ ~channel'.bcast.active

C18_EveryObserverSent ==
    [][C18_BroadcastEnds =>
           \A w \in channel.bcast.present \ channel.bcast.left : C18_TimesSent(w) = 1]_vars

(***************************************************************************)
(* C19: after n message-carrying updates the log holds exactly the last    *)
(* min(n, 100) entries, in the order they were added.                      *)
(***************************************************************************)
C19_Kept == Min(now, 100)

C19_LastHundred ==
    progress.messages =
        [i \in 1..C19_Kept |-> [time |-> now - C19_Kept + i - 1, text |-> <<"Progress:">>]]

C19_RollingLog == []C19_LastHundred

\* the log after more than 100 updates: the oldest entries are gone
C19_Witness ==
    /\ now > 100
    /\ Len(progress.messages) = 100
    /\ progress.messages[1].time = now - 100

(***************************************************************************)
(* C20: the first message put on a new observer's connection is the full   *)
(* snapshot of the progress record; no update of a broadcast is sent to an *)
(* observer before its snapshot.                                           *)
(***************************************************************************)
C20_NoUpdateFirst == channel.early = {}

C20_SnapshotStep ==
    \A w \in WsClients :
        (w \in channel.accepting /\ w \notin channel'.accepting)
            => /\ channel'.wire = [to |-> w, kind |-> "snapshot", data |-> progress]
               /\ w \in channel'.greeted

C20_SnapshotFirst == []C20_NoUpdateFirst /\ [][C20_SnapshotStep]_vars

\* an observer that connected while a broadcast was suspended in a send:
\* it was sent its snapshot, and then the update of that broadcast
C20_Witness ==
    /\ channel.bcast.active
    /\ channel.wire.kind = "update"
    /\ channel.wire.to \in channel.greeted
    /\ channel.wire.to \notin channel.bcast.present


(***************************************************************************)
(* C21 as claimed: when a reindex run starts (no other run going on), the  *)
(* record it publishes holds nothing of an earlier run: processed_files    *)
(* and failed_files are empty, completed_files and chunks_created are 0,   *)
(* current_file is cleared and the message log holds only the run's own    *)
(* starting message.                                                       *)
(***************************************************************************)
C21_RunStarts(j) ==
    /\ jobs[j].pc = "update"
    /\ jobs[j].ret = "file"
    /\ jobs'[j] # jobs[j]
    /\ \A k \in DOMAIN jobs : k # j => jobs[k].pc = "done"

C21_Fresh(p) ==
    /\ p.processed_files = <<>>
    /\ p.failed_files = <<>>
    /\ p.completed_files = 0
    /\ p.chunks_created = 0
    /\ p.current_file = NoFile
    /\ Len(p.messages) = 1

C21_ResetAtRunStart ==
    [][\A j \in DOMAIN jobs : C21_RunStarts(j) => C21_Fresh(progress')]_vars


(***************************************************************************)
(* Sliding-window chunking (PDFDocumentProcessor._chunk_text).  A text is  *)
(* taken by its words, text.split(), numbered 1..n; a chunk, the words     *)
(* joined by single spaces, by its sequence of words.                      *)
(***************************************************************************)
Words(n) == [i \in 1..n |-> i]

Max(a, b) == IF a >= b THEN a ELSE b

\* words[start:stop] for start >= 0, with Python's reading of a negative
\* stop and of indexes past the end
PySlice(words, start, stop) ==
    LET n == Len(words)
        from == Min(start, n)
        to == IF stop < 0 THEN Max(0, stop + n) ELSE Min(stop, n)
    IN  SubSeq(words, from + 1, to)

ChunkStep(chunk_size, overlap) == Max(1, chunk_size - overlap)

\* the end of the window that starts at word offset i
ChunkStop_Short(i, chunk_size) == i + chunk_size - 1

ChunkStop(i, chunk_size) == i + chunk_size

\* the loop for i in range(i, len(words), step)
RECURSIVE ChunksFrom(_, _, _, _)
ChunksFrom(words, i, chunk_size, step) ==
    IF i >= Len(words) THEN <<>>
    ELSE LET chunk_words == PySlice(words, i, ChunkStop(i, chunk_size))
         IN  (IF chunk_words # <<>> THEN <<chunk_words>> ELSE <<>>)
                 \o ChunksFrom(words, i + step, chunk_size, step)

chunk_text(words, chunk_size, overlap) ==
    ChunksFrom(words, 0, chunk_size, ChunkStep(chunk_size, overlap))

\* The calls made: small texts with every size and overlap around zero, and
\* the 1,000 words, size 500, overlap 100 of the defaults.
ChunkCalls ==
    [n : 0..MaxWords, chunk_size : (0 - 1)..MaxChunkSize, overlap : (0 - 2)..(MaxChunkSize + 1)]
        \cup {[n |-> 1000, chunk_size |-> 500, overlap |-> 100]}

ChunkText(call) ==
    /\ resp' = [op |-> "chunk_text", call |-> call,
                chunks |-> chunk_text(Words(call.n), call.chunk_size, call.overlap)]
    /\ UNCHANGED <<users, convs, msgs, inflight, nextConvId, now, connections, chunks,
                   indexingVars>>

NextChunking == \E call \in ChunkCalls : ChunkText(call)

SpecChunking == InitProgress /\ [][NextChunking]_vars

(***************************************************************************)
(* C22 as claimed, for every chunk size and overlap: the chunks start at   *)
(* the offsets 0, s, 2s, ... below n with s = max(1, c - o), each is the   *)
(* run of at most c words from its offset, and every word is in a chunk;   *)
(* 1,000 words with c = 500, o = 100 give chunks at 0, 400, 800.           *)
(***************************************************************************)
C22_Step(call) == IF call.chunk_size - call.overlap >= 1 THEN call.chunk_size - call.overlap ELSE 1

C22_Count(call) == (call.n + C22_Step(call) - 1) \div C22_Step(call)

C22_Windows(call, made) ==
    /\ Len(made) = C22_Count(call)
    /\ \A j \in DOMAIN made :
           LET offset == (j - 1) * C22_Step(call)
               last == IF offset + call.chunk_size <= call.n
                       THEN offset + call.chunk_size ELSE call.n
           IN  /\ offset < call.n
               /\ Len(made[j]) <= call.chunk_size
               /\ made[j] = [k \in 1..(last - offset) |-> offset + k]

C22_Covered(call, made) ==
    \A w \in 1..call.n : \E j \in DOMAIN made : \E k \in DOMAIN made[j] : made[j][k] = w

C22_Thousand(call, made) ==
    (call.n = 1000 /\ call.chunk_size = 500 /\ call.overlap = 100)
        => /\ Len(made) = 3
           /\ made[1][1] = 1 /\ made[2][1] = 401 /\ made[3][1] = 801
           /\ Len(made[3]) < 500

C22_Holds(call, made) ==
    /\ C22_Windows(call, made)
    /\ C22_Covered(call, made)
    /\ C22_Thousand(call, made)

C22_AnySizes == resp # NoResp => C22_Holds(resp.call, resp.chunks)

(***************************************************************************)
(* C22 for a chunk size of at least 1 and an overlap of at least 0: the    *)
(* same windows, and every word in a chunk.                                *)
(***************************************************************************)
C22_SlidingWindow ==
    [](resp # NoResp /\ resp.call.chunk_size >= 1 /\ resp.call.overlap >= 0
           => C22_Holds(resp.call, resp.chunks))

\* the 1,000 words chunked
C22_Witness ==
    /\ resp # NoResp
    /\ resp.call.n = 1000
    /\ Len(resp.chunks) = 3

\* an overlap beyond the chunk size: the step is 1
C22_WitnessStepOne ==
    /\ resp # NoResp
    /\ resp.call.chunk_size = 2
    /\ resp.call.overlap = 3
    /\ Len(resp.chunks) = resp.call.n
    /\ resp.call.n > 2


(***************************************************************************)
(* C23 as claimed: when the outcome of a file's index request is reported  *)
(* to the progress record, the file is added to processed_files only if    *)
(* the engine indexed it, and it is in failed_files whenever the engine    *)
(* did not.                                                                *)
(***************************************************************************)
C23_Reported(j) == jobs[j].pc = "request" /\ jobs'[j].pc # "request"

C23_FaithfulOutcome ==
    [][\A j \in DOMAIN jobs :
          C23_Reported(j) =>
              LET filename == jobs[j].files[jobs[j].idx]
                  engine_ok == jobs[j].idx \in jobs'[j].indexed
              IN  /\ Len(progress'.processed_files) > Len(progress.processed_files)
                        => engine_ok
                  /\ ~engine_ok => filename \in Elems(progress'.failed_files)]_vars


(***************************************************************************)
(* C24 as claimed: every step that writes the progress record is made by   *)
(* a coroutine that has taken the lock for it.                             *)
(***************************************************************************)
C24_TakesLock(j) ==
    /\ jobs[j].pc = "update"
    /\ jobs'[j] # jobs[j]
    /\ channel.lock = 0

C24_WritesUnderLock ==
    [][progress' # progress => \E j \in DOMAIN jobs : C24_TakesLock(j)]_vars


(***************************************************************************)
(* C25: a send of a broadcast that fails does not end the broadcast: the   *)
(* loop goes on to the next connection of the list; when the broadcast     *)
(* ends, every connection whose send failed is off the list and every      *)
(* connection whose send succeeded, and which did not disconnect, is on    *)
(* it.                                                                     *)
(***************************************************************************)
C25_SendFailed ==
    /\ channel.bcast.active
    /\ Len(channel'.bcast.failed) > Len(channel.bcast.failed)

C25_GoesOn ==
    (C25_SendFailed /\ channel.bcast.idx < Len(connections))
        => /\ channel'.bcast.active
           /\ channel'.bcast.sent =
                Append(channel.bcast.sent, connections[channel.bcast.idx + 1])

C25_Membership ==
    C18_BroadcastEnds
        => /\ \A w \in Elems(channel'.bcast.failed) : ~InList(connections', w)
           /\ \A w \in Elems(channel.bcast.sent) :
                  (w \notin Elems(channel'.bcast.failed) /\ InList(connections, w))
                      => InList(connections', w)

C25_FailuresContained == [][C25_GoesOn /\ C25_Membership]_vars

\* a broadcast over two connections has ended: the send to the first
\* failed, the second is still connected
C25_Witness ==
    /\ ~channel.bcast.active
    /\ Len(channel.bcast.failed) = 1
    /\ Len(connections) = 1
    /\ channel.wire.kind = "update"
    /\ channel.wire.to = connections[1]
    /\ channel.wire.to # channel.bcast.failed[1]

\* ---------------------------------------------------------------------------
\* The engine's composition root (src/src/container.py).  An instance is
\* identified by the slot it was built for and its construction number in
\* that slot, so two constructions are never the same instance.
\* ---------------------------------------------------------------------------

MaxResets == 2

NoInstance == 0

AdapterNames == {"vector_repo", "embedding_service", "document_processor", "vllm_client"}

UseCaseNames ==
    {"index_document_use_case", "search_documents_use_case", "get_statistics_use_case",
     "index_directory_use_case", "delete_document_use_case"}

\* A use case remembers the collaborators it was constructed with.
NoUseCase ==
    [instance |-> NoInstance, vector_repo |-> NoInstance, embedding_service |-> NoInstance,
     document_processor |-> NoInstance, index_document_use_case |-> NoInstance]

\* Container.__init__: every cached reference starts as None.
NewContainer(use_vllm) ==
    [made |-> TRUE,
     use_vllm |-> use_vllm,
     adapters |-> [n \in AdapterNames |-> NoInstance],
     use_cases |-> [n \in UseCaseNames |-> NoUseCase],
     built |-> [n \in AdapterNames \cup UseCaseNames |-> 0],
     discarded |-> {},
     resets |-> 0]

IsNone_Always(slot) == TRUE

\* `if self._x is None`
IsNone(slot) == slot = NoInstance

\* The container after one construction of the adapter `name`.
BuiltAdapter(c, name) ==
    [c EXCEPT !.built[name] = @ + 1, !.adapters[name] = c.built[name] + 1]

\* The lazy adapter properties: the container after the access.
LazyAdapter(c, name) == IF IsNone(c.adapters[name]) THEN BuiltAdapter(c, name) ELSE c

vector_repository(c) == LazyAdapter(c, "vector_repo")

embedding_service(c) == LazyAdapter(c, "embedding_service")

document_processor(c) == LazyAdapter(c, "document_processor")

vllm_client(c) ==
    IF c.use_vllm /\ IsNone(c.adapters["vllm_client"]) THEN BuiltAdapter(c, "vllm_client") ELSE c

\* What an adapter property returns once the access has been made.
AdapterOf(c, name) ==
    IF name = "vllm_client" /\ ~c.use_vllm THEN NoInstance ELSE c.adapters[name]

AdapterAccess(c, name) ==
    CASE name = "vector_repo" -> vector_repository(c)
      [] name = "embedding_service" -> embedding_service(c)
      [] name = "document_processor" -> document_processor(c)
      [] name = "vllm_client" -> vllm_client(c)

\* The container after one construction of the use case `name` from the
\* collaborators `deps`.
BuiltUseCase(c, name, deps) ==
    [c EXCEPT !.built[name] = @ + 1,
              !.use_cases[name] = [deps EXCEPT !.instance = c.built[name] + 1]]

index_document_use_case(c) ==
    IF IsNone(c.use_cases["index_document_use_case"].instance)
    THEN LET c1 == vector_repository(c)
             c2 == embedding_service(c1)
             c3 == document_processor(c2)
         IN  BuiltUseCase(c3, "index_document_use_case",
                 [NoUseCase EXCEPT !.vector_repo = c3.adapters["vector_repo"],
                                   !.embedding_service = c3.adapters["embedding_service"],
                                   !.document_processor = c3.adapters["document_processor"]])
    ELSE c

search_documents_use_case(c) ==
    IF IsNone(c.use_cases["search_documents_use_case"].instance)
    THEN LET c1 == vector_repository(c)
             c2 == embedding_service(c1)
         IN  BuiltUseCase(c2, "search_documents_use_case",
                 [NoUseCase EXCEPT !.vector_repo = c2.adapters["vector_repo"],
                                   !.embedding_service = c2.adapters["embedding_service"]])
    ELSE c

get_statistics_use_case(c) ==
    IF IsNone(c.use_cases["get_statistics_use_case"].instance)
    THEN LET c1 == vector_repository(c)
         IN  BuiltUseCase(c1, "get_statistics_use_case",
                 [NoUseCase EXCEPT !.vector_repo = c1.adapters["vector_repo"]])
    ELSE c

index_directory_use_case(c) ==
    IF IsNone(c.use_cases["index_directory_use_case"].instance)
    THEN LET c1 == index_document_use_case(c)
             c2 == vector_repository(c1)
         IN  BuiltUseCase(c2, "index_directory_use_case",
                 [NoUseCase EXCEPT
                     !.index_document_use_case = c2.use_cases["index_document_use_case"].instance,
                     !.vector_repo = c2.adapters["vector_repo"]])
    ELSE c

delete_document_use_case(c) ==
    IF IsNone(c.use_cases["delete_document_use_case"].instance)
    THEN LET c1 == vector_repository(c)
         IN  BuiltUseCase(c1, "delete_document_use_case",
                 [NoUseCase EXCEPT !.vector_repo = c1.adapters["vector_repo"]])
    ELSE c

UseCaseAccess(c, name) ==
    CASE name = "index_document_use_case" -> index_document_use_case(c)
      [] name = "search_documents_use_case" -> search_documents_use_case(c)
      [] name = "get_statistics_use_case" -> get_statistics_use_case(c)
      [] name = "index_directory_use_case" -> index_directory_use_case(c)
      [] name = "delete_document_use_case" -> delete_document_use_case(c)

\* The adapters a use case reads and writes through: its own and, for the
\* directory use case, the one of the index use case it delegates to.
AdaptersUsed(c, name) ==
    {c.use_cases[name].vector_repo}
        \cup (IF c.use_cases[name].index_document_use_case # NoInstance
              THEN {c.use_cases["index_document_use_case"].vector_repo}
              ELSE {})

Discard(c) == c.discarded \cup ({c.adapters["vector_repo"]} \ {NoInstance})

\* Container.reset_vector_store: a new adapter built with reset=True replaces
\* the cached one.
reset_vector_store(c) ==
    [BuiltAdapter(c, "vector_repo") EXCEPT !.discarded = Discard(c), !.resets = @ + 1]

\* POST /reset-vector-store: `container._vector_repo = None`.
ClearVectorRepo(c) ==
    [c EXCEPT !.adapters["vector_repo"] = NoInstance, !.discarded = Discard(c),
              !.resets = @ + 1]

ContainerResponse(op, name, status, instance) ==
    [op |-> op, name |-> name, status |-> status, instance |-> instance]

\* A request reads one adapter property of the container.
GetAdapter(name) ==
    /\ container.made
    /\ container' = AdapterAccess(container, name)
    /\ resp' = ContainerResponse("adapter", name, 200, AdapterOf(container', name))
    /\ UNCHANGED <<users, convs, msgs, inflight, nextConvId, now, connections, chunks,
                   dir, progress, jobs, channel>>

\* A request reads one use-case property of the container.
GetUseCase(name) ==
    /\ container.made
    /\ container' = UseCaseAccess(container, name)
    /\ resp' = ContainerResponse("use_case", name, 200, container'.use_cases[name].instance)
    /\ UNCHANGED <<users, convs, msgs, inflight, nextConvId, now, connections, chunks,
                   dir, progress, jobs, channel>>

\* POST /reset.  A constructor that raises leaves the cached reference as it
\* was and answers 500.
ResetCollection(ok) ==
    /\ container.made
    /\ container.resets < MaxResets
    /\ IF ok
       THEN /\ container' = reset_vector_store(container)
            /\ chunks' = {}
            /\ resp' = ContainerResponse("reset", "reset", 200, NoInstance)
       ELSE /\ resp' = ContainerResponse("reset", "reset", 500, NoInstance)
            /\ UNCHANGED <<container, chunks>>
    /\ UNCHANGED <<users, convs, msgs, inflight, nextConvId, now, connections,
                   dir, progress, jobs, channel>>

\* POST /reset-vector-store.
ResetVectorStoreEndpoint(ok) ==
    /\ container.made
    /\ container.resets < MaxResets
    /\ IF ok
       THEN /\ container' = ClearVectorRepo(container)
            /\ chunks' = {}
            /\ resp' = ContainerResponse("reset", "reset-vector-store", 200, NoInstance)
       ELSE /\ resp' = ContainerResponse("reset", "reset-vector-store", 500, NoInstance)
            /\ UNCHANGED <<container, chunks>>
    /\ UNCHANGED <<users, convs, msgs, inflight, nextConvId, now, connections,
                   dir, progress, jobs, channel>>

InitContainer ==
    /\ users = {}
    /\ resp = NoResp
    /\ convs = {}
    /\ msgs = <<>>
    /\ inflight = {}
    /\ nextConvId = 1
    /\ now = 0
    /\ connections = <<>>
    /\ chunks = {}
    /\ dir = NoDirRun
    /\ progress = InitialProgress
    /\ jobs = NoJobs
    /\ channel = QuietChannel
    /\ \E use_vllm \in BOOLEAN : container = NewContainer(use_vllm)

NextContainer ==
    \/ \E name \in AdapterNames : GetAdapter(name)
    \/ \E name \in UseCaseNames : GetUseCase(name)
    \/ \E ok \in BOOLEAN : ResetCollection(ok)
    \/ \E ok \in BOOLEAN : ResetVectorStoreEndpoint(ok)

SpecContainer == InitContainer /\ [][NextContainer]_vars

\* C26: within one container each adapter and each use case is constructed at
\* most once between resets and a later access returns the cached instance;
\* a reset replaces the vector-store adapter only, and the embedding service,
\* the document processor, the LLM client and the use cases stay the same
\* instances.
C26_IsReset == container'.resets # container.resets

C26_OnceBuilt ==
    /\ \A n \in (AdapterNames \ {"vector_repo"}) \cup UseCaseNames : container.built[n] <= 1
    /\ container.built["vector_repo"] <= 1 + container.resets
    /\ ~container.use_vllm => container.built["vllm_client"] = 0

C26_SameInstance ==
    /\ \A n \in AdapterNames :
           container.adapters[n] # NoInstance /\ ~(n = "vector_repo" /\ C26_IsReset)
               => container'.adapters[n] = container.adapters[n]
    /\ \A n \in UseCaseNames :
           container.use_cases[n] # NoUseCase => container'.use_cases[n] = container.use_cases[n]
    /\ \A n \in AdapterNames :
           resp'.op = "adapter" /\ resp'.name = n /\ AdapterOf(container, n) # NoInstance
               => resp'.instance = AdapterOf(container, n)
    /\ \A n \in UseCaseNames :
           resp'.op = "use_case" /\ resp'.name = n /\ container.use_cases[n] # NoUseCase
               => resp'.instance = container.use_cases[n].instance

C26_ResetFrame ==
    C26_IsReset =>
        /\ \A n \in AdapterNames \ {"vector_repo"} : container'.adapters[n] = container.adapters[n]
        /\ container'.use_cases = container.use_cases
        /\ container'.adapters["vector_repo"] # container.adapters["vector_repo"]
               \/ container.adapters["vector_repo"] = NoInstance
        /\ container'.adapters["vector_repo"] \notin container'.discarded
        /\ resp'.name = "reset" =>
               /\ container'.adapters["vector_repo"] # NoInstance
               /\ container'.built["vector_repo"] = container.built["vector_repo"] + 1

C26_LazySingletons ==
    /\ [](container.made => C26_OnceBuilt)
    /\ [][container.made => C26_SameInstance /\ C26_ResetFrame]_vars

\* Everything has been built, the store has been reset twice, and an access
\* made after the resets was answered from the cache.
C26_Witness ==
    /\ container.made
    /\ container.use_vllm
    /\ container.resets = MaxResets
    /\ \A n \in AdapterNames : container.adapters[n] # NoInstance
    /\ \A n \in UseCaseNames : container.use_cases[n] # NoUseCase
    /\ container.built["vector_repo"] >= 2
    /\ resp.op = "adapter"
    /\ resp.name = "embedding_service"

\* C28: a use case obtained from the container after the vector-store adapter
\* was replaced never works through a replaced adapter.
C28_CurrentAdapter ==
    container.made /\ resp.op = "use_case"
        => AdaptersUsed(container, resp.name) \cap container.discarded = {}

\* C27: at every broadcast of a single reindex run completed_files is the
\* number of processed files plus the number of failed files and at most
\* total_files, chunks_created is the sum of the chunk counts the engine
\* reported for the processed files, and with status 'completed'
\* completed_files is total_files.
RECURSIVE C27_ReportedSum(_)
C27_ReportedSum(indexed) ==
    IF indexed = {} THEN 0
    ELSE LET i == CHOOSE x \in indexed : TRUE
         IN  ChunksCreatedFor(i) + C27_ReportedSum(indexed \ {i})

C27_Consistent(p, job) ==
    /\ p.completed_files = Len(p.processed_files) + Len(p.failed_files)
    /\ p.completed_files <= p.total_files
    /\ p.chunks_created = C27_ReportedSum(job.indexed)
    /\ p.status = "completed" => p.completed_files = p.total_files

C27_CountersConsistent ==
    \A j \in DOMAIN jobs :
        channel.bcast.active /\ channel.bcast.by = j => C27_Consistent(progress, jobs[j])

\* The closing broadcast of a run over two files, one indexed with chunks and
\* one failed.
C27_Witness ==
    /\ channel.bcast.active
    /\ channel.bcast.by = 1
    /\ progress.status = "completed"
    /\ progress.total_files = 2
    /\ Len(progress.processed_files) = 1
    /\ Len(progress.failed_files) = 1
    /\ progress.chunks_created > 0

\* C29: after index-one-document succeeds for a file, the chunks stored under
\* the file's document id are exactly the chunks this run produced.
C29_ThisRun(document_id, n) == {StoredChunk(document_id, i) : i \in 0..(n - 1)}

C29_StoredUnder(stored, document_id) == {c \in stored : c.document_id = document_id}

C29_Step ==
    resp'.op = "index_document" /\ resp'.body.success
        => C29_StoredUnder(chunks', resp'.body.document_id)
               = C29_ThisRun(resp'.body.document_id, resp'.body.chunks_created)

C29_ExactlyThisRun == [][C29_Step]_vars

\* C30: whenever the delete endpoint answers with a success outcome for a
\* document id, no chunk with that document id remains in the store, also
\* when the store raised during the deletion.
C30_NothingLeftOnSuccess ==
    resp.op = "delete_document" /\ resp.status = 200
        => {c \in chunks : c.document_id = resp.request.target} = {}

=============================================================================
